---- MODULE Spec2Model ----
(***************************************************************************)
(* Process / thread control plane of wasmer-wasix:                         *)
(*   lib/wasix/src/os/task/control_plane.rs  (WasiControlPlane)            *)
(*   lib/wasix/src/os/task/process.rs        (WasiProcess)                 *)
(* Objects behind an Arc are numbered in creation order: process objects   *)
(* are the indices of `proc`, thread objects the indices of `thr`.         *)
(***************************************************************************)
EXTENDS Integers, Sequences, FiniteSets, TLC

\* ---------------------------------------------------------------- bounds
MaxProcs == 3
MaxThreads == 3
MaxIssued == 4
MaxTasks == 2
MaxSigThreads == 2
SeedGap == 2
MaxTokens == 2
MaxBackoffProcs == 2
MaxOwners == 2

\* ------------------------------------------------------ program constants
\* A u32 is a pair <<high 16 bits, low 16 bits>>.
LimbMax == 2^16 - 1

U32_MAX == <<LimbMax, LimbMax>>

U32_ZERO == <<0, 0>>

CanceledCode == 11

\* The callers that run joins, and the signal they send (Signal::Sigkill)
Callers == {1, 2}

\* The callers of signal_process
Signalers == {3, 4}

\* The callers of new_thread and new_thread_with_id
Spawners == {5, 6}

Signals == {9}

VARIABLES
    task_count,      \* State.task_count: AtomicUsize
    process_seed,    \* MutableState.process_seed: u32
    processes,       \* MutableState.processes: pid -> process object
    proc,            \* the WasiProcess objects (handle fields and WasiProcessInner)
    thr,             \* the WasiThread objects
    free_guards,     \* TaskCountGuards held directly by callers of register_task
    owners,          \* the WasiControlPlane values alive: strong owners of State
    calls,           \* the suspended join / join_any_child futures of each caller
    issued,          \* history: the IDs the allocator returned, in lock order
    finish_log,      \* history: [p, v] for each completion, in the order they settled
    last             \* history: the operation that ran last, and what it returned

vars == <<task_count, process_seed, processes, proc, thr, free_guards, owners, calls,
          issued, finish_log, last>>

\* ---------------------------------------------------------------- helpers
Range(f) == {f[x] : x \in DOMAIN f}

Procs == DOMAIN proc

Thrs == DOMAIN thr

\* TaskStatus::Pending / TaskStatus::Finished(Result<ExitCode, Error>).
\* An Err carries an exit code, or none (code -1).
Pending == [fin |-> FALSE, ok |-> TRUE, code |-> 0]

Finished(ok, code) == [fin |-> TRUE, ok |-> ok, code |-> code]

\* u32 comparison and arithmetic on the pairs
U32Less(a, b) == a[1] < b[1] \/ (a[1] = b[1] /\ a[2] < b[2])

\* u32::checked_add(1): [some, val]
checked_add_1(a) ==
    IF a[2] < LimbMax THEN [some |-> TRUE, val |-> <<a[1], a[2] + 1>>]
    ELSE IF a[1] < LimbMax THEN [some |-> TRUE, val |-> <<a[1] + 1, 0>>]
    ELSE [some |-> FALSE, val |-> U32_ZERO]

\* u32::wrapping_add(1)
wrapping_add_1(a) == IF checked_add_1(a).some THEN checked_add_1(a).val ELSE U32_ZERO

U32Pred(a) == IF a[2] > 0 THEN <<a[1], a[2] - 1>> ELSE <<a[1] - 1, LimbMax>>

RECURSIVE U32Minus(_, _)
U32Minus(a, n) == IF n = 0 THEN a ELSE U32Minus(U32Pred(a), n - 1)

NoOp == [op |-> "none", p |-> 0, c |-> 0, arg |-> 0, ok |-> TRUE, ret |-> 0, err |-> "",
         id |-> U32_ZERO, pre |-> 0, delivered |-> <<>>, forwarded |-> <<>>,
         route |-> <<>>,
         some |-> FALSE, repeat |-> FALSE, chained |-> FALSE,
         logic_errors |-> 0,
         before |-> <<>>, before2 |-> <<>>]

Op(name, p, c, arg, ok, ret) ==
    [NoOp EXCEPT !.op = name, !.p = p, !.c = c, !.arg = arg, !.ok = ok, !.ret = ret]

\* an operation that returns an ID, or ControlPlaneError::TaskLimitReached
OpId(name, p, arg, ok, id) ==
    [NoOp EXCEPT !.op = name, !.p = p, !.arg = arg, !.ok = ok, !.id = id,
                 !.err = IF ok THEN "" ELSE "TaskLimitReached"]

\* WasiProcess::new: max_cpu_backoff_time = 30 s, max_cpu_cool_off_time = 500 ms,
\* in milliseconds
MaxCpuBackoffTime == 30000
MaxCpuCoolOffTime == 500

WasiProcessCpuBackoff_loose(max_backoff, max_cool_off) ==
    [cpu_backoff_time |-> 0, max_cpu_backoff_time |-> 2 * max_backoff,
     max_cpu_cool_off_time |-> max_cool_off]

\* WasiProcessCpuBackoff::new(max_cpu_backoff_time, max_cpu_cool_off_time): no
\* backoff yet
WasiProcessCpuBackoff(max_backoff, max_cool_off) ==
    [cpu_backoff_time |-> 0, max_cpu_backoff_time |-> max_backoff,
     max_cpu_cool_off_time |-> max_cool_off]

\* ------------------------------------------------------------ construction
\* WasiProcess.parent: Option<Weak<RwLock<WasiProcessInner>>>.  `some`: there
\* is a link; `live`: the state it points to is still owned, so the Weak
\* upgrades; `pid`: the pid field of that state.  The state is an object of its
\* own, not the Mutex-guarded WasiProcessInner of a process.
NoParent == [some |-> FALSE, live |-> FALSE, pid |-> U32_ZERO]

\* The link a child is given to the state of a parent whose pid is `pid`
ParentLink(pid) == [some |-> TRUE, live |-> TRUE, pid |-> pid]

NewProcess_waited(pid) ==
    [pid |-> pid,
     inner_pid |-> pid,
     parent |-> NoParent,
     threads |-> <<>>,
     thread_count |-> 0,
     signal_intervals |-> <<>>,
     children |-> <<>>,
     checkpoint |-> "Execute",
     wakers |-> <<>>,
     waiting |-> 1,
     disable_journaling_after_checkpoint |-> FALSE,
     backoff |-> WasiProcessCpuBackoff(MaxCpuBackoffTime, MaxCpuCoolOffTime),
     cpu_run_tokens |-> 0,
     finished |-> Pending]

\* WasiProcess::new(pid, ..): the process object, with its WasiProcessInner.
NewProcess(pid) ==
    [pid |-> pid,                 \* WasiProcess.pid
     inner_pid |-> pid,           \* WasiProcessInner.pid
     parent |-> NoParent,         \* WasiProcess.parent: None
     threads |-> <<>>,            \* WasiProcessInner.threads: tid -> thread object
     thread_count |-> 0,
     signal_intervals |-> <<>>,
     children |-> <<>>,           \* WasiProcessInner.children
     checkpoint |-> "Execute",    \* WasiProcessCheckpoint::Execute
     wakers |-> <<>>,
     waiting |-> 0,               \* WasiProcess.waiting / WasiProcessInner.waiting
     disable_journaling_after_checkpoint |-> FALSE,
     backoff |-> WasiProcessCpuBackoff(MaxCpuBackoffTime, MaxCpuCoolOffTime),
     cpu_run_tokens |-> 0,        \* WasiProcess.cpu_run_tokens
     finished |-> Pending]        \* WasiProcess.finished

\* A caller's future: where it stands, what it holds and what it returned.
IdleCall == [pc |-> "idle", p |-> 0, snap |-> <<>>, polled |-> {}, settled |-> {},
             suspended |-> FALSE,
             idx |-> 1,           \* the join select_all / join_all polls next
             rest |-> <<>>,       \* the joins that are being dropped
             results |-> <<>>,    \* the results of the joins that settled
             lock |-> FALSE,
             frames |-> <<>>, want |-> 0, sig |-> 0,
             opname |-> "", is_main |-> FALSE, kids |-> <<>>,
             held |-> 0,          \* the WasiControlPlane values the call holds
             guard |-> FALSE,     \* the call holds a TaskCountGuard not yet in a thread
             pre |-> 0, delivered |-> <<>>, forwarded |-> <<>>, route |-> <<>>,
             fin |-> FALSE, ok |-> TRUE, err |-> "", child |-> 0, pid |-> U32_ZERO,
             code |-> 0]

\* WasiControlPlane::new
InitPlane ==
    /\ task_count = 0
    /\ processes = <<>>
    /\ proc = <<>>
    /\ thr = <<>>
    /\ free_guards = 0
    /\ owners = 1
    /\ calls = [c \in Callers \cup Signalers \cup Spawners |-> IdleCall]
    /\ issued = <<>>
    /\ finish_log = <<>>
    /\ last = NoOp

Init ==
    /\ InitPlane
    /\ process_seed = U32_ZERO

\* The control plane after U32_MAX - SeedGap calls of generate_id.
InitLate ==
    /\ InitPlane
    /\ process_seed \in {U32_ZERO, U32Minus(U32_MAX, SeedGap)}

\* ------------------------------------------------------- locks and owners
\* Call c holds the mutex of the state of process p: for its snapshot, or in
\* one of the signal_process_internal frames it is in
HoldsInner(c, p) ==
    \/ calls[c].p = p /\ calls[c].lock
    \/ \E i \in DOMAIN calls[c].frames : calls[c].frames[i].p = p

\* A call holds the mutex of the state of process p
InnerLocked(p) == \E c \in DOMAIN calls : HoldsInner(c, p)

\* self.inner.0.lock().unwrap() returns at once: the mutex of process p is free
under_inner_lock(p) == ~InnerLocked(p)

RECURSIVE SeqSum(_)
SeqSum(s) == IF s = <<>> THEN 0 ELSE Head(s) + SeqSum(Tail(s))

\* The WasiControlPlane values that calls in progress upgraded and drop on
\* return; the others are owned by the embedder, and the operations of
\* WasiControlPlane (&self) are called on one of those
Held == SeqSum([c \in 1 .. Cardinality(DOMAIN calls) |-> calls[c].held])

upgrade_always(n) == TRUE

\* WasiControlPlaneHandle::upgrade: Weak::upgrade gives the state while a strong
\* owner is alive
upgrade(n) == n > 0

\* ------------------------------------------------------------ control plane
\* MutableState::next_process_id: [ok, id, seed]
next_process_id_reuse(seed) ==
    LET id == checked_add_1(seed)
    IN  IF id.some
        THEN [ok |-> TRUE, id |-> id.val, seed |-> seed]
        ELSE [ok |-> FALSE, id |-> U32_ZERO, seed |-> seed]

next_process_id_wrap(seed) ==
    [ok |-> TRUE, id |-> wrapping_add_1(seed), seed |-> wrapping_add_1(seed)]

next_process_id(seed) ==
    LET id == checked_add_1(seed)
    IN  IF id.some
        THEN [ok |-> TRUE, id |-> id.val, seed |-> id.val]
        ELSE [ok |-> FALSE, id |-> U32_ZERO, seed |-> seed]

MapInsert_only(m, k, v) == [x \in {k} |-> v]

\* HashMap::insert
MapInsert(m, k, v) == [x \in DOMAIN m \cup {k} |-> IF x = k THEN v ELSE m[x]]

MapRemove_keep(m, k) == m

\* HashMap::remove
MapRemove(m, k) == [x \in DOMAIN m \ {k} |-> m[x]]

WriteLocked_never == FALSE

\* The write lock of the registry (state.mutable) is held: a new_process call
\* stands between mutable.write() and its return
WriteLocked == \E c \in Callers : calls[c].pc \in {"np_locked", "np_id"}

\* WasiControlPlane::new_process.  The process is built with pid 0 and no
\* parent link before the registry lock is taken; set_pid then changes the
\* handle's pid only.  With parent # 0 the caller then makes the new process a
\* child of process `parent`: it is given a link to the parent's state.
NewProcessStep(parent) ==
    LET r == next_process_id(process_seed)
        o == Len(proc) + 1
        made == [NewProcess(U32_ZERO) EXCEPT !.pid = r.id]
        new == IF parent = 0 THEN made
               ELSE [made EXCEPT !.parent = ParentLink(proc[parent].pid)]
    IN  IF r.ok
        THEN /\ process_seed' = r.seed
             /\ proc' = IF parent = 0
                        THEN Append(proc, new)
                        ELSE [Append(proc, new) EXCEPT ![parent].children = Append(@, o)]
             /\ processes' = MapInsert(processes, r.id, o)
             /\ issued' = Append(issued, [kind |-> "proc", id |-> r.id])
             /\ last' = OpId("new_process", o, parent, TRUE, r.id)
        ELSE /\ process_seed' = r.seed
             /\ UNCHANGED <<proc, processes, issued>>
             /\ last' = OpId("new_process", 0, parent, FALSE, U32_ZERO)

new_process ==
    /\ owners - Held > 0
    /\ ~WriteLocked
    /\ Len(proc) < MaxProcs
    /\ Len(issued) < MaxIssued
    /\ NewProcessStep(0)
    /\ UNCHANGED <<task_count, thr, free_guards, owners, calls, finish_log>>

\* A process spawns a child: new_process, then the parent pushes the handle
\* onto WasiProcessInner.children and the child keeps a weak link to it.
spawn_child(p) ==
    /\ owners - Held > 0
    /\ ~WriteLocked
    /\ under_inner_lock(p)
    /\ Len(proc) < MaxProcs
    /\ Len(issued) < MaxIssued
    /\ NewProcessStep(p)
    /\ UNCHANGED <<task_count, thr, free_guards, owners, calls, finish_log>>

\* WasiControlPlane::generate_id, under the write lock of the registry
generate_id ==
    /\ owners - Held > 0
    /\ ~WriteLocked
    /\ Len(issued) < MaxIssued
    /\ LET r == next_process_id(process_seed)
       IN  /\ process_seed' = r.seed
           /\ issued' = IF r.ok THEN Append(issued, [kind |-> "id", id |-> r.id]) ELSE issued
           /\ last' = OpId("generate_id", 0, 0, r.ok, r.id)
    /\ UNCHANGED <<task_count, processes, proc, thr, free_guards, owners, calls, finish_log>>

\* WasiControlPlane::get_process: the process object registered under pid, or 0
get_process(pid) == IF pid \in DOMAIN processes THEN processes[pid] ELSE 0

\* A caller asks the registry for pid, under its read lock, and keeps what it
\* was given.
GetProcess(pid) ==
    /\ owners - Held > 0
    /\ ~WriteLocked
    /\ last' = [Op("get_process", 0, 0, get_process(pid), get_process(pid) # 0, 0)
                   EXCEPT !.id = pid]
    /\ UNCHANGED <<task_count, process_seed, processes, proc, thr, free_guards, owners, calls,
                   issued, finish_log>>

\* new_process, step by step.  First: self.state.mutable.write()
new_process_lock(c) ==
    /\ owners - Held > 0
    /\ Len(proc) < MaxProcs
    /\ Len(issued) < MaxIssued
    /\ calls[c].pc \in {"idle", "done"}
    /\ ~WriteLocked
    /\ calls' = [calls EXCEPT ![c] = [IdleCall EXCEPT !.pc = "np_locked"]]
    /\ last' = NoOp
    /\ UNCHANGED <<task_count, process_seed, processes, proc, thr, free_guards, owners, issued,
                   finish_log>>

\* new_process: let pid = mutable.next_process_id()?  (the error return drops
\* the lock)
new_process_next_id(c) ==
    /\ calls[c].pc = "np_locked"
    /\ LET r == next_process_id(process_seed)
       IN  /\ process_seed' = r.seed
           /\ IF r.ok
              THEN /\ issued' = Append(issued, [kind |-> "proc", id |-> r.id])
                   /\ calls' = [calls EXCEPT ![c].pc = "np_id", ![c].pid = r.id]
                   /\ last' = NoOp
              ELSE /\ issued' = issued
                   /\ calls' = [calls EXCEPT ![c].pc = "done", ![c].ok = FALSE,
                                             ![c].err = "TaskLimitReached"]
                   /\ last' = OpId("new_process", 0, 0, FALSE, U32_ZERO)
    /\ UNCHANGED <<task_count, processes, proc, thr, free_guards, owners, finish_log>>

\* new_process: proc.set_pid(pid); mutable.processes.insert(pid, proc.clone());
\* the lock is dropped on return
new_process_insert(c) ==
    /\ calls[c].pc = "np_id"
    /\ LET o == Len(proc) + 1
           pid == calls[c].pid
       IN  /\ proc' = Append(proc, [NewProcess(U32_ZERO) EXCEPT !.pid = pid])
           /\ processes' = MapInsert(processes, pid, o)
           /\ calls' = [calls EXCEPT ![c].pc = "done", ![c].child = o]
           /\ last' = OpId("new_process", o, 0, TRUE, pid)
    /\ UNCHANGED <<task_count, process_seed, thr, free_guards, owners, issued, finish_log>>

\* WasiControlPlane::register_task: the counter after fetch_add(1)
register_task_noinc(tc) == tc

register_task(tc) == tc + 1

\* TaskCountGuard::drop: the counter after fetch_sub(1)
TaskCountGuard_drop(tc) == tc - 1

\* ControlPlaneConfig.max_task_count: None, or Some(n)
NoLimit == -1

MaxTaskCounts == {NoLimit, 0, 1}

RegisterTask_limited ==
    /\ owners - Held > 0
    /\ free_guards < MaxTasks
    /\ \E max \in MaxTaskCounts :
          IF max = NoLimit \/ task_count < max
          THEN /\ task_count' = register_task(task_count)
               /\ free_guards' = free_guards + 1
               /\ last' = Op("register_task", 0, 0, max, TRUE, task_count)
          ELSE /\ last' = [Op("register_task", 0, 0, max, FALSE, task_count)
                              EXCEPT !.err = "TaskLimitReached"]
               /\ UNCHANGED <<task_count, free_guards, owners>>
    /\ UNCHANGED <<process_seed, processes, proc, thr, calls, issued, finish_log,
                   owners>>

\* A caller registers a task and keeps the guard, on a control plane that was
\* configured with max_task_count = max.
RegisterTask ==
    /\ owners - Held > 0
    /\ free_guards < MaxTasks
    /\ \E max \in MaxTaskCounts :
          /\ task_count' = register_task(task_count)
          /\ free_guards' = free_guards + 1
          /\ last' = Op("register_task", 0, 0, max, TRUE, task_count)
    /\ UNCHANGED <<process_seed, processes, proc, thr, calls, issued, finish_log,
                   owners>>

\* The caller's path ends, with success (ok) or with an error: the guard drops.
DropGuard ==
    /\ free_guards > 0
    /\ \E ok \in BOOLEAN :
        /\ task_count' = TaskCountGuard_drop(task_count)
        /\ free_guards' = free_guards - 1
        /\ last' = Op("drop_guard", 0, 0, 0, ok, task_count)
    /\ UNCHANGED <<process_seed, processes, proc, thr, calls, issued, finish_log,
                   owners>>

\* ------------------------------------------------------------------ threads
\* WasiThread::new(pid, tid, is_main, finished, guard, start); the handle the
\* caller gets is alive, and the object owns its TaskCountGuard.
NewThread(p, tid, is_main) ==
    [p |-> p, tid |-> tid, is_main |-> is_main,
     shared |-> FALSE,            \* its status is the completion of the process
     status |-> Pending,          \* its own OwnedTaskStatus (unused when shared)
     signals |-> {},              \* signals delivered to the thread
     handle |-> TRUE,             \* the WasiThreadHandle is alive
     guard |-> TRUE]              \* its TaskCountGuard is alive

\* The status object of a thread: the process's completion for a main thread.
StatusOf(t) == IF thr[t].shared THEN proc[thr[t].p].finished ELSE thr[t].status

\* Thread objects that a handle or a thread table still refers to.
Referenced(thrs, procs) ==
    {t \in DOMAIN thrs : thrs[t].handle \/ t \in Range(procs[thrs[t].p].threads)}

\* Dropping the last reference to a thread object drops its TaskCountGuard.
ReapThreads(thrs, procs) ==
    [t \in DOMAIN thrs |->
        IF t \in Referenced(thrs, procs) THEN thrs[t] ELSE [thrs[t] EXCEPT !.guard = FALSE]]

Reaped(thrs, procs) ==
    {t \in DOMAIN thrs : thrs[t].guard /\ t \notin Referenced(thrs, procs)}

RECURSIVE DropGuards(_, _)
DropGuards(tc, n) == IF n = 0 THEN tc ELSE DropGuards(TaskCountGuard_drop(tc), n - 1)

InsertThread_lost(pr, tid, t) == [pr EXCEPT !.thread_count = @ + 1]

\* The insertion of new_thread_with_id: threads.insert(tid, ctrl); thread_count += 1
InsertThread(pr, tid, t) ==
    [pr EXCEPT !.threads = MapInsert(@, tid, t), !.thread_count = @ + 1]

SharesFinished_never(is_main) == FALSE

\* new_thread_with_id: the main thread is given self.finished.clone() as its
\* status, any other thread a new OwnedTaskStatus
SharesFinished(is_main) == is_main

\* WasiControlPlaneHandle::must_upgrade panics when the State is gone: the call
\* unwinds and ends
Panicked(call) ==
    [call EXCEPT !.pc = "done", !.ok = FALSE, !.err = "control plane unavailable",
                 !.lock = FALSE, !.held = 0, !.kids = <<>>, !.snap = <<>>]

\* The registry after n of the WasiControlPlane values are dropped: with the
\* last one the State goes, and with it the registry's handles of the processes
RegistryAfterDrop(n) == IF owners - n = 0 THEN << >> ELSE processes

\* The new_thread and new_thread_with_id calls that have not inserted their
\* thread yet
InFlight == {c \in Spawners : calls[c].pc \in {"nt_id", "ntw_up", "ntw_reg", "ntw_ins"}}

\* WasiProcess::new_thread_with_id from the lock on: the status object is
\* chosen, the thread is built with the guard and inserted, the count is raised
NewThreadWithId(p, is_main, tid, opname) ==
    LET t == Len(thr) + 1
        procs == [proc EXCEPT ![p] = InsertThread(@, tid, t)]
        thrs == Append(thr, [NewThread(p, tid, is_main)
                                 EXCEPT !.shared = SharesFinished(is_main)])
    IN  /\ proc' = procs
        /\ thr' = ReapThreads(thrs, procs)
        /\ task_count' = DropGuards(task_count, Cardinality(Reaped(thrs, procs)))

\* WasiProcess::new_thread, up to the choice of the tid: must_upgrade, and for
\* the main thread tid = pid;
\* the caller's last call has returned or has panicked
new_thread(c, p, is_main) ==
    /\ calls[c].pc \in {"idle", "done"}
    /\ Len(thr) + Cardinality(InFlight) < MaxThreads
    /\ ~is_main => Len(issued) + Cardinality(InFlight) < MaxIssued
    /\ IF upgrade(owners)
       THEN /\ owners' = owners + 1
            /\ calls' = [calls EXCEPT ![c] =
                           [IdleCall EXCEPT !.pc = IF is_main THEN "ntw_up" ELSE "nt_id",
                                            !.opname = "new_thread", !.p = p,
                                            !.is_main = is_main, !.held = 1,
                                            !.pid = IF is_main THEN proc[p].pid
                                                    ELSE U32_ZERO]]
            /\ last' = NoOp
       ELSE /\ owners' = owners
            /\ calls' = [calls EXCEPT ![c] = Panicked([IdleCall EXCEPT !.p = p])]
            /\ last' = [Op("new_thread", p, c, 0, FALSE, 0) EXCEPT !.err = "panic"]
    /\ UNCHANGED <<task_count, process_seed, processes, proc, thr, free_guards, issued,
                   finish_log>>

\* new_thread: control_plane.generate_id()? for a thread that is not the main
\* thread; the error is returned to the caller
new_thread_generate_id(c) ==
    /\ calls[c].pc = "nt_id"
    /\ ~WriteLocked
    /\ LET r == next_process_id(process_seed)
       IN  /\ process_seed' = r.seed
           /\ IF r.ok
              THEN /\ issued' = Append(issued, [kind |-> "id", id |-> r.id])
                   /\ calls' = [calls EXCEPT ![c].pc = "ntw_up", ![c].pid = r.id]
                   /\ last' = NoOp
              ELSE /\ issued' = issued
                   /\ calls' = [calls EXCEPT ![c].pc = "nt_ret", ![c].ok = FALSE,
                                             ![c].err = "TaskLimitReached"]
                   /\ last' = [OpId("new_thread", calls[c].p, 0, FALSE, U32_ZERO)
                                  EXCEPT !.c = c, !.pre = task_count]
    /\ UNCHANGED <<task_count, processes, proc, thr, free_guards, owners, finish_log>>

\* WasiProcess::new_thread_with_id, called by new_thread: must_upgrade, which
\* finds the State alive as the caller holds it
new_thread_with_id_must_upgrade(c) ==
    /\ calls[c].pc = "ntw_up"
    /\ upgrade(owners)
    /\ owners' = owners + 1
    /\ calls' = [calls EXCEPT ![c].pc = "ntw_reg", ![c].held = @ + 1]
    /\ last' = NoOp
    /\ UNCHANGED <<task_count, process_seed, processes, proc, thr, free_guards, issued,
                   finish_log>>

\* WasiProcess::new_thread_with_id, called with a tid: must_upgrade
new_thread_with_id(c, p, is_main, tid) ==
    /\ calls[c].pc \in {"idle", "done"}
    /\ Len(thr) + Cardinality(InFlight) < MaxThreads
    /\ IF upgrade(owners)
       THEN /\ owners' = owners + 1
            /\ calls' = [calls EXCEPT ![c] =
                           [IdleCall EXCEPT !.pc = "ntw_reg",
                                            !.opname = "new_thread_with_id", !.p = p,
                                            !.is_main = is_main, !.held = 1,
                                            !.pid = tid]]
            /\ last' = NoOp
       ELSE /\ owners' = owners
            /\ calls' = [calls EXCEPT ![c] = Panicked([IdleCall EXCEPT !.p = p])]
            /\ last' = [Op("new_thread_with_id", p, c, 0, FALSE, 0) EXCEPT !.err = "panic"]
    /\ UNCHANGED <<task_count, process_seed, processes, proc, thr, free_guards, issued,
                   finish_log>>

\* new_thread_with_id: control_plane.register_task()?
new_thread_with_id_register_task(c) ==
    /\ calls[c].pc = "ntw_reg"
    /\ task_count' = register_task(task_count)
    /\ calls' = [calls EXCEPT ![c].pc = "ntw_ins", ![c].guard = TRUE,
                              ![c].pre = task_count]
    /\ last' = NoOp
    /\ UNCHANGED <<process_seed, processes, proc, thr, free_guards, owners, issued,
                   finish_log>>

\* new_thread_with_id: self.inner.0.lock(), the thread is built and inserted
\* and the handle is made; the mutex is released on return
new_thread_with_id_insert(c) ==
    /\ calls[c].pc = "ntw_ins"
    /\ under_inner_lock(calls[c].p)
    /\ NewThreadWithId(calls[c].p, calls[c].is_main, calls[c].pid, calls[c].opname)
    /\ calls' = [calls EXCEPT ![c].pc = "ntw_ret", ![c].guard = FALSE,
                              ![c].child = Len(thr) + 1]
    /\ last' = [OpId(calls[c].opname, calls[c].p, Len(thr) + 1, TRUE, calls[c].pid)
                   EXCEPT !.c = c, !.pre = calls[c].pre]
    /\ UNCHANGED <<process_seed, processes, free_guards, owners, issued, finish_log>>

\* new_thread_with_id returns: the WasiControlPlane it upgraded is dropped; a
\* call that came through new_thread goes on there
new_thread_with_id_return(c) ==
    /\ calls[c].pc = "ntw_ret"
    /\ owners' = owners - 1
    /\ processes' = RegistryAfterDrop(1)
    /\ calls' = [calls EXCEPT ![c] = IF calls[c].opname = "new_thread"
                                     THEN [@ EXCEPT !.pc = "nt_ret", !.held = @ - 1]
                                     ELSE IdleCall]
    /\ UNCHANGED <<task_count, process_seed, proc, thr, free_guards, issued, finish_log,
                   last>>

\* new_thread returns, with the handle or with the error of generate_id: the
\* WasiControlPlane it upgraded is dropped
new_thread_return(c) ==
    /\ calls[c].pc = "nt_ret"
    /\ owners' = owners - calls[c].held
    /\ processes' = RegistryAfterDrop(calls[c].held)
    /\ calls' = [calls EXCEPT ![c] = IdleCall]
    /\ UNCHANGED <<task_count, process_seed, proc, thr, free_guards, issued, finish_log,
                   last>>

\* Dropping a WasiThreadHandle: the thread leaves the table of its process.
drop_thread_handle(t) ==
    /\ thr[t].handle
    /\ under_inner_lock(thr[t].p)
    /\ LET p == thr[t].p
           procs == [proc EXCEPT ![p].threads = MapRemove(@, thr[t].tid),
                                 ![p].thread_count = @ - 1]
           thrs == [thr EXCEPT ![t].handle = FALSE]
       IN  /\ proc' = procs
           /\ thr' = ReapThreads(thrs, procs)
           /\ task_count' = DropGuards(task_count, Cardinality(Reaped(thrs, procs)))
           /\ last' = [OpId("drop_thread_handle", p, t, TRUE, thr[t].tid)
                          EXCEPT !.pre = task_count]
    /\ UNCHANGED <<process_seed, processes, free_guards, owners, calls, issued, finish_log>>

\* WasiProcess::active_threads
active_threads(p) == proc[p].thread_count

\* WasiProcess::get_thread: the thread object, or 0
get_thread_any(p, tid) ==
    IF tid \in DOMAIN proc[p].threads THEN proc[p].threads[tid]
    ELSE IF Thrs = {} THEN 0 ELSE CHOOSE t \in Thrs : TRUE

get_thread(p, tid) == IF tid \in DOMAIN proc[p].threads THEN proc[p].threads[tid] ELSE 0

\* OwnedTaskStatus::set_finished on a status: Pending -> Finished, one way.  A
\* call on a status that is finished already is a logic error: it is reported
\* and the status keeps its value.
set_status_finished(status, v) ==
    [status |-> IF status.fin THEN status ELSE v, logic_error |-> status.fin]

\* n calls of set_status_finished(v) on one status object, one after the
\* other: the status, and the number of calls that were logic errors
RECURSIVE SetFinished(_, _, _)
SetFinished(status, v, n) ==
    IF n = 0 THEN [status |-> status, logic_errors |-> 0]
    ELSE LET r == set_status_finished(status, v)
             rest == SetFinished(r.status, v, n - 1)
         IN  [status |-> rest.status,
              logic_errors |-> rest.logic_errors + (IF r.logic_error THEN 1 ELSE 0)]

\* The calls of set_status_finished(v) on the threads `ts` of process p that are
\* logic errors: the threads with a status of their own that is finished, and
\* all but the first call on the completion of the process, or all when it is
\* finished
LogicErrors(p, ts, v) ==
    LET own == {t \in ts : ~thr[t].shared}
        mains == {t \in ts : thr[t].shared}
    IN  Cardinality({t \in own : SetFinished(thr[t].status, v, 1).logic_errors = 1})
            + SetFinished(proc[p].finished, v, Cardinality(mains)).logic_errors

\* The process objects whose completion settles when the threads `ts` finish.
Settling(ts) == {thr[t].p : t \in {u \in ts : thr[u].shared /\ ~proc[thr[u].p].finished.fin}}

\* finish_log, extended by the process in `ps` whose completion settles with v
\* (one at most settles per step)
LogFinish(ps, v) ==
    IF ps = {} THEN finish_log ELSE Append(finish_log, [p |-> CHOOSE q \in ps : TRUE, v |-> v])

FinishThreads_overwrite(p, ts, v) ==
    /\ thr' = [t \in DOMAIN thr |->
                 IF t \in ts /\ ~thr[t].shared THEN [thr[t] EXCEPT !.status = v] ELSE thr[t]]
    /\ proc' = IF \E t \in ts : thr[t].shared THEN [proc EXCEPT ![p].finished = v] ELSE proc
    /\ finish_log' = LogFinish(Settling(ts), v)

\* The threads `ts` of process p are marked finished with v.
FinishThreads(p, ts, v) ==
    /\ thr' = [t \in DOMAIN thr |->
                 IF t \in ts /\ ~thr[t].shared
                 THEN [thr[t] EXCEPT !.status = SetFinished(@, v, 1).status]
                 ELSE thr[t]]
    /\ proc' = [proc EXCEPT ![p].finished =
                     SetFinished(@, v, Cardinality({t \in ts : thr[t].shared})).status]
    /\ finish_log' = LogFinish(Settling(ts), v)

\* WasiProcess::terminate: set_status_finished(Ok(exit_code)) on every thread
\* of the table under the mutex, whatever its status
terminate(p, code) ==
    /\ under_inner_lock(p)
    /\ FinishThreads(p, Range(proc[p].threads), Finished(TRUE, code))
    /\ last' = [Op("terminate", p, 0, code, TRUE,
                   Cardinality({t \in Range(proc[p].threads) : StatusOf(t).fin}))
                   EXCEPT !.pre = task_count,
                          !.logic_errors =
                              LogicErrors(p, Range(proc[p].threads), Finished(TRUE, code))]
    /\ UNCHANGED <<task_count, process_seed, processes, free_guards, owners, calls, issued>>

\* A running thread ends: WasiThread::set_status_finished on its own status.
thread_exit(t, v) ==
    /\ thr[t].handle
    /\ ~StatusOf(t).fin
    /\ FinishThreads(thr[t].p, {t}, v)
    /\ last' = NoOp
    /\ UNCHANGED <<task_count, process_seed, processes, free_guards, owners, calls, issued>>

\* The position of process p in finish_log (0: its completion is pending)
FinishIndex(p) ==
    IF \E i \in DOMAIN finish_log : finish_log[i].p = p
    THEN CHOOSE i \in DOMAIN finish_log : finish_log[i].p = p
    ELSE 0

\* ------------------------------------------------------------------ signals
RECURSIVE SetToSeq(_)
SetToSeq(S) == IF S = {} THEN <<>> ELSE LET x == CHOOSE y \in S : TRUE IN <<x>> \o SetToSeq(S \ {x})

Count(seq, x) == Cardinality({i \in DOMAIN seq : seq[i] = x})

\* signal_process_internal: does the process hand the signal to its children?
\* (waiting > 0, and the loop over the children ran at least once)
Forwards_waiting(p) == proc[p].waiting > 0

Forwards_never(p) == FALSE

Forwards(p) == proc[p].waiting > 0 /\ proc[p].children # <<>>

\* WasiThread::signal
ThreadSignal(th, s) == [th EXCEPT !.signals = @ \cup {s}]

ForwardTo_self(q) == <<q>>

\* signal_process_internal: guard.children.iter(), the processes the signal is
\* handed to while the mutex of q is held
ForwardTo(q) == proc[q].children

Unwind_all(fs) == [frames |-> <<>>, want |-> 0]

\* The frames of signal_process_internal after the innermost one returned:
\* every frame whose loop over the children is over returns as well and drops
\* its guard; `want` is the next child to signal (0: the call is over).
RECURSIVE Unwind(_)
Unwind(fs) ==
    IF fs = <<>> THEN [frames |-> <<>>, want |-> 0]
    ELSE LET top == fs[Len(fs)]
         IN  IF top.todo = <<>>
             THEN Unwind(SubSeq(fs, 1, Len(fs) - 1))
             ELSE [frames |-> [fs EXCEPT ![Len(fs)].todo = Tail(@)],
                   want |-> Head(top.todo)]

\* A call of signal_process_internal on process p with signal s, before it
\* takes the mutex of p
SignalCall(opname, p, s) ==
    [IdleCall EXCEPT !.pc = "sp_lock", !.opname = opname, !.p = p, !.want = p, !.sig = s]

\* WasiProcess::signal_process(signal) is called on process p
signal_process(c, p, s) ==
    /\ calls[c].pc = "idle"
    /\ calls' = [calls EXCEPT ![c] = SignalCall("signal_process", p, s)]
    /\ last' = NoOp
    /\ UNCHANGED <<task_count, process_seed, processes, proc, thr, free_guards, owners,
                   issued, finish_log>>

\* signal_process_internal on the process the call has reached: the mutex is
\* taken and the waiting counter read; a process that is waited on and has
\* children keeps the mutex while the signal goes to its children one by one,
\* any other signals its threads and returns.  The history of the call keeps
\* the counter read on the first process, the processes the signal was handed
\* to, the threads it was delivered to and, for every process whose mutex it
\* took, what it found there (route).
signal_process_internal(c) ==
    LET q == calls[c].want
        u == Unwind(calls[c].frames)
        first == calls[c].frames = <<>> /\ calls[c].forwarded = <<>>
        pre == IF first THEN proc[q].waiting ELSE calls[c].pre
        targets == IF Forwards(q) THEN {} ELSE Range(proc[q].threads)
        delivered == calls[c].delivered \o SetToSeq(targets)
        route == Append(calls[c].route,
                        [p |-> q, waiting |-> proc[q].waiting,
                         children |-> proc[q].children, threads |-> proc[q].threads])
    IN  /\ calls[c].pc = "sp_lock"
        /\ under_inner_lock(q)
        /\ IF Forwards(q) /\ ForwardTo(q) # <<>>
           THEN /\ calls' = [calls EXCEPT
                               ![c].frames = Append(@, [p |-> q, todo |-> Tail(ForwardTo(q))]),
                               ![c].want = Head(ForwardTo(q)),
                               ![c].forwarded = Append(@, Head(ForwardTo(q))),
                               ![c].route = route,
                               ![c].pre = pre]
                /\ thr' = thr
                /\ last' = NoOp
           ELSE /\ thr' = [t \in DOMAIN thr |->
                             IF t \in targets
                             THEN ThreadSignal(thr[t], calls[c].sig) ELSE thr[t]]
                /\ IF u.want = 0
                   THEN /\ calls' = [calls EXCEPT ![c] = IdleCall]
                        /\ last' = [Op(calls[c].opname, calls[c].p, c, calls[c].sig, TRUE, 0)
                                       EXCEPT !.pre = pre,
                                              !.delivered = delivered,
                                              !.forwarded = calls[c].forwarded,
                                              !.route = route]
                   ELSE /\ calls' = [calls EXCEPT
                                       ![c].frames = u.frames,
                                       ![c].want = u.want,
                                       ![c].forwarded = Append(@, u.want),
                                       ![c].delivered = delivered,
                                       ![c].route = route,
                                       ![c].pre = pre]
                        /\ last' = NoOp
        /\ UNCHANGED <<task_count, process_seed, processes, proc, free_guards, owners,
                       issued, finish_log>>

\* The values of the Signal enumeration: Signone = 0 up to Sigsys = 31
SignalValues == 0 .. 31

\* The u8 values handed to the signal capability
SignalBytes == {9, 31, 32}

\* Signal::try_from(u8): the signal of that value, or an error
try_into_signal(u) == [ok |-> u \in SignalValues, sig |-> u]

SignalOutcome_unchecked(opname, p, u) == [ok |-> TRUE, call |-> SignalCall(opname, p, u)]

\* SignalHandlerAbi::signal of the SignalHandler of the completion object and
\* of WasiProcess: signal_process is called when the value converts, else
\* Err(SignalDeliveryError) is returned
SignalOutcome(opname, p, u) ==
    LET conv == try_into_signal(u)
    IN  IF conv.ok
        THEN [ok |-> TRUE, call |-> SignalCall(opname, p, conv.sig)]
        ELSE [ok |-> FALSE, call |-> IdleCall]

\* <SignalHandler as SignalHandlerAbi>::signal, the capability attached to the
\* completion object of process p
SignalHandler_signal(c, p, u) ==
    /\ calls[c].pc = "idle"
    /\ calls' = [calls EXCEPT ![c] = SignalOutcome("handler_signal", p, u).call]
    /\ last' = IF SignalOutcome("handler_signal", p, u).ok THEN NoOp
               ELSE [Op("handler_signal", p, c, u, FALSE, 0)
                        EXCEPT !.err = "SignalDeliveryError"]
    /\ UNCHANGED <<task_count, process_seed, processes, proc, thr, free_guards, owners,
                   issued, finish_log>>

\* <WasiProcess as SignalHandlerAbi>::signal
WasiProcess_signal(c, p, u) ==
    /\ calls[c].pc = "idle"
    /\ calls' = [calls EXCEPT ![c] = SignalOutcome("process_signal", p, u).call]
    /\ last' = IF SignalOutcome("process_signal", p, u).ok THEN NoOp
               ELSE [Op("process_signal", p, c, u, FALSE, 0)
                        EXCEPT !.err = "SignalDeliveryError"]
    /\ UNCHANGED <<task_count, process_seed, processes, proc, thr, free_guards, owners,
                   issued, finish_log>>

\* The TID that libc passes to mean the process: 1073741823 = 2^30 - 1
PROCESS_TID == <<2^14 - 1, LimbMax>>

ResolveTid_asis(p, tid) == tid

\* signal_thread: if tid == 1073741823 { tid = self.pid().raw() }
ResolveTid(p, tid) == IF tid = PROCESS_TID THEN proc[p].pid ELSE tid

\* WasiProcess::signal_thread: the signal reaches the thread the table holds
\* under the resolved tid, or is lost
signal_thread(p, tid, s) ==
    LET target == get_thread(p, ResolveTid(p, tid))
    IN  /\ under_inner_lock(p)
        /\ thr' = IF target # 0
                  THEN [thr EXCEPT ![target] = ThreadSignal(@, s)]
                  ELSE thr
        /\ last' = [Op("signal_thread", p, 0, s, target # 0, target) EXCEPT !.id = tid]
        /\ UNCHANGED <<task_count, process_seed, processes, proc, free_guards, owners, calls,
                       issued, finish_log>>

\* The signals interval schedules are made for, the intervals given
\* (None, or Some(d) with d in milliseconds), and the readings of the clock
IntervalSignals == Signals \cup {14}

NoInterval == [some |-> FALSE, d |-> 0]

Intervals == {NoInterval, [some |-> TRUE, d |-> 5], [some |-> TRUE, d |-> 7]}

Times == {10, 20}

\* platform_clock_time_get(Monotonic): a reading not before any reading stored
ClockReads ==
    {now \in Times :
        \A p \in Procs : \A s \in DOMAIN proc[p].signal_intervals :
            proc[p].signal_intervals[s].last_signal <= now}

WasiSignalInterval_stale(signal, interval, now, repeat) ==
    [signal |-> signal, interval |-> interval, last_signal |-> 0, repeat |-> repeat]

\* WasiSignalInterval { signal, interval, last_signal: now, repeat }
WasiSignalInterval(signal, interval, now, repeat) ==
    [signal |-> signal, interval |-> interval, last_signal |-> now, repeat |-> repeat]

\* WasiProcess::signal_interval.  The history keeps the table before the call
\* and, when the call before it installed a one-shot schedule for the same
\* signal of the same process, the table before that call.
signal_interval(p, signal, interval, repeat) ==
    LET tab == proc[p].signal_intervals
        chained == /\ last.op = "signal_interval" /\ last.p = p /\ last.arg = signal
                   /\ last.some /\ ~last.repeat
        done(now) == [Op("signal_interval", p, 0, signal, TRUE, now)
                         EXCEPT !.some = interval.some, !.repeat = repeat,
                                !.pre = interval.d,
                                !.chained = chained, !.before = tab,
                                !.before2 = IF chained THEN last.before ELSE << >>]
    IN  /\ under_inner_lock(p)
        /\ IF ~interval.some
           THEN /\ proc' = [proc EXCEPT ![p].signal_intervals = MapRemove(@, signal)]
                /\ last' = done(0)
           ELSE \E now \in ClockReads :
                /\ proc' = [proc EXCEPT ![p].signal_intervals =
                                MapInsert(@, signal,
                                    WasiSignalInterval(signal, interval.d, now, repeat))]
                /\ last' = done(now)
        /\ UNCHANGED <<task_count, process_seed, processes, thr, free_guards, owners, calls,
                       issued, finish_log>>

\* ------------------------------------------------------ control plane handle
\* WasiControlPlane::clone: one more strong owner
plane_clone ==
    /\ owners - Held > 0
    /\ owners - Held < MaxOwners
    /\ owners' = owners + 1
    /\ last' = Op("plane_clone", 0, 0, 0, TRUE, owners + 1)
    /\ UNCHANGED <<task_count, process_seed, processes, proc, thr, free_guards, calls,
                   issued, finish_log>>

\* A WasiControlPlane is dropped; with the last one the State goes, and with
\* it the registry's handles of the processes.  The value a new_process call
\* runs on is borrowed (&self) until the call returns and cannot be dropped.
plane_drop ==
    /\ owners - Held > (IF WriteLocked THEN 1 ELSE 0)
    /\ owners' = owners - 1
    /\ processes' = RegistryAfterDrop(1)
    /\ last' = Op("plane_drop", 0, 0, 0, TRUE, owners - 1)
    /\ UNCHANGED <<task_count, process_seed, proc, thr, free_guards, calls, issued,
                   finish_log>>

\* Process p resolves its handle: self.compute.upgrade().  The caller keeps the
\* WasiControlPlane it was given, or drops it at once.
handle_upgrade(p, keep) ==
    /\ keep => owners - Held < MaxOwners
    /\ owners' = IF upgrade(owners) /\ keep THEN owners + 1 ELSE owners
    /\ last' = [Op("upgrade", p, 0, 0, upgrade(owners), owners) EXCEPT !.some = keep]
    /\ UNCHANGED <<task_count, process_seed, processes, proc, thr, free_guards, calls,
                   issued, finish_log>>

ppid_stale(p) == proc[p].parent.pid

\* WasiProcess::ppid: the pid in the state the parent link points to when there
\* is a link and its Weak upgrades, else 0
ppid(p) ==
    IF proc[p].parent.some /\ proc[p].parent.live
    THEN proc[p].parent.pid
    ELSE U32_ZERO

\* A caller asks process p for its parent's pid.
Ppid(p) ==
    /\ last' = [Op("ppid", p, 0, 0, TRUE, 0) EXCEPT !.id = ppid(p)]
    /\ UNCHANGED <<task_count, process_seed, processes, proc, thr, free_guards, owners,
                   calls, issued, finish_log>>

\* The state the parent link of process p points to loses its last owner: the
\* link no longer resolves.
parent_drop(p) ==
    /\ proc[p].parent.some
    /\ proc[p].parent.live
    /\ proc' = [proc EXCEPT ![p].parent.live = FALSE]
    /\ last' = Op("parent_drop", p, 0, 0, TRUE, 0)
    /\ UNCHANGED <<task_count, process_seed, processes, thr, free_guards, owners,
                   calls, issued, finish_log>>

\* -------------------------------------------------------------- cpu backoff
\* The floor of the backoff and the first step above it, in milliseconds
BackoffFloor == 0

BackoffFirst == 1

BackoffGrow_uncapped(b) ==
    IF b.cpu_backoff_time = BackoffFloor THEN BackoffFirst ELSE 2 * b.cpu_backoff_time

\* The suggested sleep after one more consultation with no run-token held:
\* doubled, and no more than the maximum
BackoffGrow(b) ==
    LET next == IF b.cpu_backoff_time = BackoffFloor THEN BackoffFirst
                ELSE 2 * b.cpu_backoff_time
    IN  IF next > b.max_cpu_backoff_time THEN b.max_cpu_backoff_time ELSE next

\* The execution loop consults the controller of process p.
backoff_consult(p) ==
    LET b == proc[p].backoff
        time == IF proc[p].cpu_run_tokens = 0 THEN BackoffGrow(b) ELSE BackoffFloor
    IN  /\ proc' = [proc EXCEPT ![p].backoff.cpu_backoff_time = time]
        /\ last' = [Op("backoff_consult", p, 0, proc[p].cpu_run_tokens, TRUE, time)
                       EXCEPT !.pre = b.cpu_backoff_time]
        /\ UNCHANGED <<task_count, process_seed, processes, thr, free_guards, owners, calls,
                       issued, finish_log>>

\* A run-token of process p is acquired: the backoff is back at its floor.
acquire_run_token(p) ==
    /\ proc[p].cpu_run_tokens < MaxTokens
    /\ proc' = [proc EXCEPT ![p].cpu_run_tokens = @ + 1,
                            ![p].backoff.cpu_backoff_time = BackoffFloor]
    /\ last' = Op("acquire_run_token", p, 0, 0, TRUE, proc[p].cpu_run_tokens + 1)
    /\ UNCHANGED <<task_count, process_seed, processes, thr, free_guards, owners, calls,
                   issued, finish_log>>

\* A run-token of process p is dropped.
release_run_token(p) ==
    /\ proc[p].cpu_run_tokens > 0
    /\ proc' = [proc EXCEPT ![p].cpu_run_tokens = @ - 1]
    /\ last' = Op("release_run_token", p, 0, 0, TRUE, proc[p].cpu_run_tokens - 1)
    /\ UNCHANGED <<task_count, process_seed, processes, thr, free_guards, owners, calls,
                   issued, finish_log>>

\* ------------------------------------------------------------------- joins
\* WasiProcessWait::new / drop on the waiting counter
WaitInc(w) == w + 1

WaitDec_leak(w) == w

WaitDec(w) == w - 1

CodeOf_raw(res) == res.code

\* The exit code join_any_child reports for a settled join:
\* res.unwrap_or_else(|e| e.as_exit_code().unwrap_or_else(|| Errno::Canceled.into()))
CodeOf(res) == IF res.ok \/ res.code >= 0 THEN res.code ELSE CanceledCode

try_join_pending(p) == [some |-> FALSE, ok |-> TRUE, code |-> 0]

\* WasiProcess::try_join: finished.status().into_finished(), None while pending
try_join(p) ==
    IF proc[p].finished.fin
    THEN [some |-> TRUE, ok |-> proc[p].finished.ok, code |-> proc[p].finished.code]
    ELSE [some |-> FALSE, ok |-> TRUE, code |-> 0]

\* A caller polls process p with try_join and keeps what it was given.
TryJoin(p) ==
    /\ last' = [Op("try_join", p, 0, 0, try_join(p).ok, try_join(p).code)
                   EXCEPT !.some = try_join(p).some]
    /\ UNCHANGED <<task_count, process_seed, processes, proc, thr, free_guards, owners,
                   calls, issued, finish_log>>

\* WasiProcess::join, up to the suspension: the guard is taken
join_begin(c, p) ==
    /\ calls[c].pc \in {"idle", "done"}
    /\ proc' = [proc EXCEPT ![p].waiting = WaitInc(@)]
    /\ calls' = [calls EXCEPT ![c] = [IdleCall EXCEPT !.pc = "join", !.p = p]]
    /\ last' = NoOp
    /\ UNCHANGED <<task_count, process_seed, processes, thr, free_guards, owners, issued,
                   finish_log>>

\* WasiProcess::join: await_termination is ready with the finished value
JoinReady_early(p) == TRUE

JoinReady_never(p) == FALSE

JoinReady(p) == proc[p].finished.fin

join_end(c) ==
    /\ calls[c].pc = "join"
    /\ JoinReady(calls[c].p)
    /\ LET p == calls[c].p
           res == proc[p].finished
       IN  /\ proc' = [proc EXCEPT ![p].waiting = WaitDec(@)]
           /\ calls' = [calls EXCEPT ![c].pc = "done", ![c].ok = res.ok,
                                     ![c].code = res.code, ![c].fin = res.fin]
           /\ last' = NoOp
    /\ UNCHANGED <<task_count, process_seed, processes, thr, free_guards, owners, issued,
                   finish_log>>

\* The MutexGuard of self.inner goes out of scope at the end of the block
Unlock_held(l) == l

Unlock(l) == FALSE

\* join_any_child / join_children: inner.0.lock() for the snapshot
inner_lock(c) ==
    /\ calls[c].pc \in {"jac", "jc"}
    /\ ~calls[c].lock
    /\ under_inner_lock(calls[c].p)
    /\ calls' = [calls EXCEPT ![c].lock = TRUE]
    /\ last' = NoOp
    /\ UNCHANGED <<task_count, process_seed, processes, proc, thr, free_guards, owners,
                   issued, finish_log>>

\* WasiProcess::join_any_child: the guard is taken
join_any_child_begin(c, p) ==
    /\ calls[c].pc \in {"idle", "done"}
    /\ proc' = [proc EXCEPT ![p].waiting = WaitInc(@)]
    /\ calls' = [calls EXCEPT ![c] = [IdleCall EXCEPT !.pc = "jac", !.p = p]]
    /\ last' = NoOp
    /\ UNCHANGED <<task_count, process_seed, processes, thr, free_guards, owners, issued,
                   finish_log>>

\* join_any_child / join_children build the joins from the snapshot, child by
\* child.  First self.compute.must_upgrade(): a panic unwinds the call, which
\* drops its WasiProcessWait guard and the joins built so far.
WaitsMustUpgrade(c, opname, next) ==
    LET p == calls[c].p
    IN  IF upgrade(owners)
        THEN /\ owners' = owners + 1
             /\ calls' = [calls EXCEPT ![c].pc = next, ![c].held = 1]
             /\ proc' = proc
             /\ last' = NoOp
        ELSE /\ owners' = owners
             /\ calls' = [calls EXCEPT ![c] = Panicked(@)]
             /\ proc' = [proc EXCEPT ![p].waiting = WaitDec(@)]
             /\ last' = [Op(opname, p, c, 0, FALSE, 0) EXCEPT !.err = "panic"]

\* Then get_process(child.pid) under the read lock of the registry: the join
\* of the child is pushed when the registry knows the pid, as [child, process];
\* the WasiControlPlane is dropped at the end of the statement.
WaitsGetProcess(c, next_up, next_poll) ==
    LET child == Head(calls[c].kids)
        process == get_process(proc[child].pid)
        rest == Tail(calls[c].kids)
    IN  /\ ~WriteLocked
        /\ calls' = [calls EXCEPT
                        ![c].snap = IF process # 0
                                    THEN Append(@, [child |-> child, process |-> process])
                                    ELSE @,
                        ![c].kids = rest,
                        ![c].held = 0,
                        ![c].pc = IF rest = <<>> THEN next_poll ELSE next_up]
        /\ owners' = owners - 1
        /\ processes' = RegistryAfterDrop(1)
        /\ last' = NoOp

\* join_any_child: the children are cloned under the mutex, which is released
\* at the end of the block; then an empty list ends the call with Errno::Child
join_any_child_snapshot(c) ==
    /\ calls[c].pc = "jac"
    /\ calls[c].lock \/ under_inner_lock(calls[c].p)
    /\ LET children == proc[calls[c].p].children
       IN  calls' = [calls EXCEPT
                        ![c].pc = IF children = <<>> THEN "jac_ret" ELSE "jac_up",
                        ![c].ok = children # <<>>,
                        ![c].err = IF children = <<>> THEN "Child" ELSE "",
                        ![c].kids = children,
                        ![c].lock = Unlock(@)]
    /\ last' = NoOp
    /\ UNCHANGED <<task_count, process_seed, processes, proc, thr, free_guards, owners,
                   issued, finish_log>>

\* join_any_child: self.compute.must_upgrade() for the next child
join_any_child_must_upgrade(c) ==
    /\ calls[c].pc = "jac_up"
    /\ WaitsMustUpgrade(c, "join_any_child", "jac_get")
    /\ UNCHANGED <<task_count, process_seed, processes, thr, free_guards, issued,
                   finish_log>>

\* join_any_child: get_process(child.pid) and the push of the join
join_any_child_get_process(c) ==
    /\ calls[c].pc = "jac_get"
    /\ WaitsGetProcess(c, "jac_up", "jac_poll")
    /\ UNCHANGED <<task_count, process_seed, proc, thr, free_guards, issued, finish_log>>

\* Vec::retain(|a| a.pid != pid) on a children list
Retain_clear(children, pid) == <<>>

RECURSIVE Retain(_, _)
Retain(children, pid) ==
    IF children = <<>> THEN <<>>
    ELSE (IF proc[Head(children)].pid # pid THEN <<Head(children)>> ELSE <<>>)
         \o Retain(Tail(children), pid)

JoinSettled_unreaped(snap, i) ==
    /\ proc[snap[i].process].finished.fin
    /\ \E q \in Procs : snap[i].child \in Range(proc[q].children)

\* process.join().await of the join of snap[i]: await_termination is ready
\* when the completion of the process is finished
JoinSettled(snap, i) == proc[snap[i].process].finished.fin

Bump_none(procs, snap, i, d) == procs

\* The waiting counters after the join of snap[i] took (d = 1) or dropped
\* (d = -1) the WasiProcessWait of its process
Bump(procs, snap, i, d) ==
    [procs EXCEPT ![snap[i].process].waiting = IF d > 0 THEN WaitInc(@) ELSE WaitDec(@)]

\* Vec::swap_remove(i) on the joins 1 .. n of select_all: the last join takes
\* the place of the one removed
SwapRemove(n, i) == [k \in 1 .. n - 1 |-> IF k = i THEN n ELSE k]

\* join_any_child: select_all, which panics when it is given no join, polls
\* the joins in snapshot order, this step the join of snap[idx].  The first
\* poll of a join takes the child's waiting guard (WasiProcessWait::new); a
\* later one finds the join pending, and select_all goes on to the next join
\* or suspends the call, or ready: the join returns and drops the guard of the
\* child.
join_any_child_poll(c) ==
    LET p == calls[c].p
        snap == calls[c].snap
        i == calls[c].idx
    IN  /\ \/ calls[c].pc = "jac_poll"
           \/ calls[c].pc = "jac_wait" /\ \E j \in calls[c].polled : JoinSettled(snap, j)
        /\ IF snap = <<>>
           THEN /\ proc' = [proc EXCEPT ![p].waiting = WaitDec(@)]
                /\ calls' = [calls EXCEPT ![c] = [Panicked(@) EXCEPT !.err = "select_all"]]
                /\ last' = [Op("join_any_child", p, c, 0, FALSE, 0) EXCEPT !.err = "panic"]
           ELSE IF i \notin calls[c].polled
           THEN /\ proc' = Bump(proc, snap, i, 1)
                /\ calls' = [calls EXCEPT ![c].polled = @ \cup {i}]
                /\ last' = NoOp
           ELSE IF ~JoinSettled(snap, i)
           THEN /\ proc' = proc
                /\ calls' = [calls EXCEPT
                                ![c].pc = IF i < Len(snap) THEN "jac_poll" ELSE "jac_wait",
                                ![c].idx = IF i < Len(snap) THEN i + 1 ELSE 1,
                                ![c].suspended = @ \/ i = Len(snap)]
                /\ last' = NoOp
           ELSE LET child == snap[i].child
                    res == proc[snap[i].process].finished
                IN  /\ proc' = Bump(proc, snap, i, -1)
                    /\ calls' = [calls EXCEPT ![c].pc = "jac_retain",
                                              ![c].polled = @ \ {i},
                                              ![c].child = child,
                                              ![c].pid = proc[child].pid,
                                              ![c].code = CodeOf(res)]
                    /\ last' = NoOp
        /\ UNCHANGED <<task_count, process_seed, processes, thr, free_guards, owners, issued,
                       finish_log>>

\* The join that is ready goes on: inner.0.lock() on the parent,
\* children.retain(|a| a.pid != child.pid), and the mutex is released.
\* select_all returns its result and the other joins (rest), which are
\* dropped next.
join_any_child_retain(c) ==
    LET p == calls[c].p
        rest == SelectSeq(SwapRemove(Len(calls[c].snap), calls[c].idx),
                          LAMBDA j : j \in calls[c].polled)
    IN  /\ calls[c].pc = "jac_retain"
        /\ under_inner_lock(p)
        /\ proc' = [proc EXCEPT ![p].children = Retain(@, calls[c].pid)]
        /\ calls' = [calls EXCEPT ![c].pc = IF rest = <<>> THEN "jac_ret" ELSE "jac_drop",
                                  ![c].rest = rest]
        /\ last' = NoOp
        /\ UNCHANGED <<task_count, process_seed, processes, thr, free_guards, owners, issued,
                       finish_log>>

\* join_any_child: the joins select_all handed back are dropped, one by one;
\* the WasiProcessWait of a join that was polled gives the guard of the child
\* back
join_any_child_drop(c) ==
    /\ calls[c].pc = "jac_drop"
    /\ proc' = Bump(proc, calls[c].snap, Head(calls[c].rest), -1)
    /\ last' = NoOp
    /\ calls' = [calls EXCEPT ![c].pc = IF Tail(calls[c].rest) = <<>> THEN "jac_ret"
                                        ELSE "jac_drop",
                              ![c].polled = @ \ {Head(calls[c].rest)},
                              ![c].rest = Tail(@)]
    /\ UNCHANGED <<task_count, process_seed, processes, thr, free_guards, owners, issued,
                   finish_log>>

\* join_any_child returns Err(Errno::Child) or Ok(Some((child.pid, code))):
\* _guard is dropped
join_any_child_return(c) ==
    LET p == calls[c].p
    IN  /\ calls[c].pc = "jac_ret"
        /\ proc' = [proc EXCEPT ![p].waiting = WaitDec(@)]
        /\ calls' = [calls EXCEPT ![c].pc = "done"]
        /\ last' = IF calls[c].ok
                   THEN [Op("join_any_child", p, c, calls[c].child, TRUE, calls[c].code)
                            EXCEPT !.id = calls[c].pid]
                   ELSE [Op("join_any_child", p, c, 0, FALSE, 0) EXCEPT !.err = "Child"]
        /\ UNCHANGED <<task_count, process_seed, processes, thr, free_guards, owners, issued,
                       finish_log>>

\* WasiProcess::join_children: the guard is taken
join_children_begin(c, p) ==
    /\ calls[c].pc \in {"idle", "done"}
    /\ proc' = [proc EXCEPT ![p].waiting = WaitInc(@)]
    /\ calls' = [calls EXCEPT ![c] = [IdleCall EXCEPT !.pc = "jc", !.p = p]]
    /\ last' = NoOp
    /\ UNCHANGED <<task_count, process_seed, processes, thr, free_guards, owners, issued,
                   finish_log>>

\* join_children: the children are cloned under the mutex, which is released
\* at the end of the block; then an empty list ends the call with None
join_children_snapshot(c) ==
    /\ calls[c].pc = "jc"
    /\ calls[c].lock \/ under_inner_lock(calls[c].p)
    /\ LET children == proc[calls[c].p].children
       IN  calls' = [calls EXCEPT
                        ![c].pc = IF children = <<>> THEN "jc_ret" ELSE "jc_up",
                        ![c].kids = children,
                        ![c].lock = Unlock(@)]
    /\ last' = NoOp
    /\ UNCHANGED <<task_count, process_seed, processes, proc, thr, free_guards, owners,
                   issued, finish_log>>

\* join_children: self.compute.must_upgrade() for the next child
join_children_must_upgrade(c) ==
    /\ calls[c].pc = "jc_up"
    /\ WaitsMustUpgrade(c, "join_children", "jc_get")
    /\ UNCHANGED <<task_count, process_seed, processes, thr, free_guards, issued,
                   finish_log>>

\* join_children: get_process(child.pid) and the push of the join
join_children_get_process(c) ==
    /\ calls[c].pc = "jc_get"
    /\ WaitsGetProcess(c, "jc_up", "jc_poll")
    /\ UNCHANGED <<task_count, process_seed, proc, thr, free_guards, issued, finish_log>>

JoinAllNext_return(call, i, settled) == [call EXCEPT !.pc = "jc_ret", !.settled = settled]

\* join_all after the poll of join i: it goes on to the next join that has not
\* settled; at the end of the round it is ready when every join has settled,
\* and pending otherwise
JoinAllNext(call, i, settled) ==
    LET open == DOMAIN call.snap \ settled
        later == {j \in open : j > i}
        first(S) == CHOOSE j \in S : \A k \in S : j <= k
    IN  IF later # {}
        THEN [call EXCEPT !.pc = "jc_poll", !.idx = first(later), !.settled = settled]
        ELSE IF open = {}
        THEN [call EXCEPT !.pc = "jc_ret", !.settled = settled]
        ELSE [call EXCEPT !.pc = "jc_wait", !.idx = first(open), !.settled = settled,
                          !.suspended = TRUE]

\* join_children: join_all polls, in the order the joins were built, every
\* join that has not settled, this step the join of snap[idx].  The first poll
\* of a join takes the child's waiting guard; a later one finds the join
\* pending, or ready: the join returns and drops the guard of the child.
join_children_poll(c) ==
    LET snap == calls[c].snap
        i == calls[c].idx
    IN  /\ \/ calls[c].pc = "jc_poll"
           \/ calls[c].pc = "jc_wait" /\ \E j \in calls[c].polled : JoinSettled(snap, j)
        /\ snap # <<>>
        /\ IF i \notin calls[c].polled
           THEN /\ proc' = Bump(proc, snap, i, 1)
                /\ calls' = [calls EXCEPT ![c].polled = @ \cup {i}]
           ELSE IF ~JoinSettled(snap, i)
           THEN /\ proc' = proc
                /\ calls' = [calls EXCEPT ![c] = JoinAllNext(@, i, calls[c].settled)]
           ELSE /\ proc' = Bump(proc, snap, i, -1)
                /\ calls' = [calls EXCEPT
                                ![c].pc = "jc_retain",
                                ![c].polled = @ \ {i},
                                ![c].results =
                                    [j \in (DOMAIN @) \cup {i} |->
                                        IF j = i THEN proc[snap[i].process].finished
                                        ELSE @[j]]]
        /\ last' = NoOp
        /\ UNCHANGED <<task_count, process_seed, processes, thr, free_guards, owners, issued,
                       finish_log>>

\* The join that is ready goes on: inner.0.lock() on the parent,
\* children.retain(|a| a.pid != child.pid), and the mutex is released; the
\* join has settled with its result.
join_children_retain(c) ==
    LET p == calls[c].p
        i == calls[c].idx
        child == calls[c].snap[i].child
    IN  /\ calls[c].pc = "jc_retain"
        /\ under_inner_lock(p)
        /\ proc' = [proc EXCEPT ![p].children = Retain(@, proc[child].pid)]
        /\ calls' = [calls EXCEPT ![c] = JoinAllNext(@, i, calls[c].settled \cup {i})]
        /\ last' = NoOp
        /\ UNCHANGED <<task_count, process_seed, processes, thr, free_guards, owners, issued,
                       finish_log>>

FirstResult_last(snap) == Len(snap)

\* join_children: join_all(waits).await.into_iter().next(), the first element of
\* the vector of results, which is in the order the joins were built
FirstResult(snap) == 1

\* join_children returns None (no children, or no child the registry knows),
\* or the first of the results: _guard is dropped
join_children_return(c) ==
    LET p == calls[c].p
        snap == calls[c].snap
    IN  /\ \/ calls[c].pc = "jc_ret"
           \/ calls[c].pc = "jc_poll" /\ snap = <<>>
        /\ proc' = [proc EXCEPT ![p].waiting = WaitDec(@)]
        /\ IF snap = <<>>
           THEN /\ calls' = [calls EXCEPT ![c].pc = "done", ![c].err = "None"]
                /\ last' = [Op("join_children", p, c, 0, TRUE, 0) EXCEPT !.err = "None"]
           ELSE LET first == FirstResult(snap)
                    res == calls[c].results[first]
                IN  /\ calls' = [calls EXCEPT
                                    ![c].pc = "done",
                                    ![c].fin = res.fin, ![c].ok = res.ok,
                                    ![c].code = res.code,
                                    ![c].child = snap[first].child,
                                    ![c].pid = proc[snap[first].child].pid]
                    /\ last' = [Op("join_children", p, c, snap[first].child, res.ok, res.code)
                                   EXCEPT !.id = proc[snap[first].child].pid]
        /\ UNCHANGED <<task_count, process_seed, processes, thr, free_guards, owners, issued,
                       finish_log>>

\* The caller drops a suspended join call: its WasiProcessWait guard goes.  Of
\* a suspended join_any_child or join_children call the joins are dropped
\* first, in the order they were built, this step the first of them.
drop_call(c) ==
    /\ calls[c].pc \in {"join", "jac_wait", "jc_wait"}
    /\ IF calls[c].pc = "join"
       THEN /\ proc' = [proc EXCEPT ![calls[c].p].waiting = WaitDec(@)]
            /\ calls' = [calls EXCEPT ![c] = IdleCall]
            /\ last' = Op("drop_call", calls[c].p, c, 0, TRUE, 0)
       ELSE LET rest == SelectSeq([k \in DOMAIN calls[c].snap |-> k],
                                 LAMBDA j : j \in calls[c].polled)
            IN  /\ proc' = Bump(proc, calls[c].snap, Head(rest), -1)
                /\ calls' = [calls EXCEPT ![c].pc = "dropping",
                                          ![c].polled = @ \ {Head(rest)},
                                          ![c].rest = Tail(rest),
                                          ![c].pre = 1]
                /\ last' = NoOp
    /\ UNCHANGED <<task_count, process_seed, processes, thr, free_guards, owners, issued,
                   finish_log>>

\* The drop of a join_any_child or join_children call goes on: the next join,
\* and after the last of them the WasiProcessWait guard of the call
drop_call_next(c) ==
    /\ calls[c].pc = "dropping"
    /\ IF calls[c].rest # <<>>
       THEN /\ proc' = Bump(proc, calls[c].snap, Head(calls[c].rest), -1)
            /\ last' = NoOp
            /\ calls' = [calls EXCEPT ![c].polled = @ \ {Head(calls[c].rest)},
                                      ![c].rest = Tail(@),
                                      ![c].pre = @ + 1]
       ELSE /\ proc' = [proc EXCEPT ![calls[c].p].waiting = WaitDec(@)]
            /\ calls' = [calls EXCEPT ![c] = IdleCall]
            /\ last' = Op("drop_call", calls[c].p, c, 0, TRUE, calls[c].pre)
    /\ UNCHANGED <<task_count, process_seed, processes, thr, free_guards, owners, issued,
                   finish_log>>

\* ----------------------------------------------------------- specifications
\* No join or signal_process call is between two of its steps: threads are
\* made while the other calls are idle, suspended or over
Quiet ==
    \A c \in Callers \cup Signalers :
        calls[c].pc \in {"idle", "join", "jac_wait", "jc_wait", "done"} /\ ~calls[c].lock

\* No join_any_child or join_children call is between two look-ups of the
\* children of its snapshot
NoLookup == \A c \in Callers : calls[c].pc \notin {"jac_up", "jac_get", "jc_up", "jc_get"}

\* No thread is being made and no join_any_child call is between its first
\* step and the end of its look-ups
NoCallRuns ==
    \A c \in DOMAIN calls : calls[c].pc \in {"idle", "done", "jac_poll"}

\* tids a caller hands to new_thread_with_id: the pid, and one of its own
TidInputs(p) == {proc[p].pid, <<0, 9>>}

\* The values a thread ends with: Ok(code), and an Err that carries no exit code
ExitValues == {Finished(TRUE, 7), Finished(FALSE, -1)}

\* The value thread t ends with where each thread has one: Ok(code) for one
\* thread, an Err for the next
ExitValueOf(t) == IF t % 2 = 1 THEN Finished(TRUE, 7) ELSE Finished(FALSE, -1)

\* The same, and an Err that carries an exit code
ExitValuesWithCode == ExitValues \cup {Finished(FALSE, 3)}

\* The control plane alone: IDs, the registry and the task counter.
NextPlane == new_process \/ generate_id \/ RegisterTask \/ DropGuard

SpecPlane == InitLate /\ [][NextPlane]_vars

\* The ID allocator and its users: processes, bare IDs, and the threads of every
\* process, made by two callers at a time.
NextIds ==
    \/ calls[6].pc = "idle" /\ new_process
    \/ calls[6].pc = "idle" /\ generate_id
    \/ \E c \in Spawners, p \in Procs, is_main \in BOOLEAN :
           (c = 6 => ~is_main /\ calls[5].pc # "idle") /\ new_thread(c, p, is_main)
    \/ \E c \in Spawners : new_thread_generate_id(c)
    \/ \E c \in Spawners : new_thread_with_id_must_upgrade(c)
    \/ \E c \in Spawners : new_thread_with_id_register_task(c)
    \/ \E c \in Spawners : new_thread_with_id_insert(c)
    \/ \E c \in Spawners : new_thread_with_id_return(c)
    \/ \E c \in Spawners : new_thread_return(c)

SpecIds == InitLate /\ [][NextIds]_vars

\* The pids callers look up: every ID issued so far, 0, the ID the allocator
\* gives next, and the largest ID
PidInputs ==
    {issued[i].id : i \in DOMAIN issued}
        \cup {U32_ZERO, wrapping_add_1(process_seed), U32_MAX}

\* The registry over the life of its processes: lookups while processes are
\* made, run their main thread, and are terminated.
NextRegistry ==
    \/ calls[5].pc = "idle" /\ new_process
    \/ calls[5].pc = "idle" /\ generate_id
    \/ \E p \in Procs : proc[p].thread_count = 0 /\ Quiet /\ new_thread(5, p, TRUE)
    \/ new_thread_with_id_must_upgrade(5)
    \/ new_thread_with_id_register_task(5)
    \/ new_thread_with_id_insert(5)
    \/ new_thread_with_id_return(5)
    \/ new_thread_return(5)
    \/ \E p \in Procs : calls[5].pc = "idle" /\ terminate(p, 0)
    \/ \E pid \in PidInputs : calls[5].pc = "idle" /\ GetProcess(pid)

SpecRegistry == Init /\ [][NextRegistry]_vars

\* One process and its thread table, with two callers that make threads.
NextThreads ==
    \/ Procs = {} /\ new_process
    \/ \E c \in Spawners, p \in Procs, is_main \in BOOLEAN :
           (c = 6 => ~is_main /\ calls[5].pc # "idle") /\ new_thread(c, p, is_main)
    \/ \E c \in Spawners, p \in Procs, is_main \in BOOLEAN : \E tid \in TidInputs(p) :
           c = 5 /\ calls[6].pc = "idle" /\ new_thread_with_id(c, p, is_main, tid)
    \/ \E c \in Spawners : new_thread_generate_id(c)
    \/ \E c \in Spawners : new_thread_with_id_must_upgrade(c)
    \/ \E c \in Spawners : new_thread_with_id_register_task(c)
    \/ \E c \in Spawners : new_thread_with_id_insert(c)
    \/ \E c \in Spawners : new_thread_with_id_return(c)
    \/ \E c \in Spawners : new_thread_return(c)
    \/ \E t \in Thrs : (\A c \in Spawners : calls[c].pc = "idle") /\ drop_thread_handle(t)
    \/ \E p \in Procs : (\A c \in Spawners : calls[c].pc = "idle") /\ terminate(p, 0)

SpecThreads == Init /\ [][NextThreads]_vars

\* A process tree whose processes get their threads as they are spawned,
\* callers that begin to wait on processes at any time, and signal_process
\* calls that walk the tree.
NextSignal ==
    \/ Procs = {} /\ new_process
    \/ \E p \in Procs :
           (\A c \in DOMAIN calls : calls[c].pc \in {"idle", "join"}) /\ spawn_child(p)
    \/ \E p \in Procs, is_main \in BOOLEAN :
           /\ p = Len(proc)
           /\ Len(thr) < MaxSigThreads
           /\ \A c \in Signalers : calls[c].pc = "idle"
           /\ Quiet /\ new_thread(5, p, is_main)
    \/ new_thread_generate_id(5)
    \/ new_thread_with_id_must_upgrade(5)
    \/ new_thread_with_id_register_task(5)
    \/ new_thread_with_id_insert(5)
    \/ new_thread_with_id_return(5)
    \/ new_thread_return(5)
    \/ \E c \in Callers, p \in Procs : calls[5].pc = "idle" /\ join_begin(c, p)
    \/ \E c \in Signalers, p \in Procs, s \in Signals :
           c = 3 /\ calls[5].pc = "idle" /\ signal_process(c, p, s)
    \/ \E c \in Signalers : signal_process_internal(c)

SpecSignal == Init /\ [][NextSignal]_vars

\* A process and its children with their main threads, a caller that waits on
\* the process, and signals that arrive as u8 values through the capability.
NextSignalAbi ==
    \/ Procs = {} /\ new_process
    \/ \E p \in Procs : p = 1 /\ calls[5].pc = "idle" /\ calls[3].pc = "idle" /\ spawn_child(p)
    \/ \E p \in Procs :
          /\ p = Len(proc)
          /\ Len(thr) < MaxSigThreads
          /\ calls[3].pc = "idle"
          /\ Quiet /\ new_thread(5, p, TRUE)
    \/ new_thread_with_id_must_upgrade(5)
    \/ new_thread_with_id_register_task(5)
    \/ new_thread_with_id_insert(5)
    \/ new_thread_with_id_return(5)
    \/ new_thread_return(5)
    \/ \E c \in Callers, p \in Procs :
          c = 1 /\ p = 1 /\ calls[c].pc = "idle" /\ calls[5].pc = "idle" /\ join_begin(c, p)
    \/ \E c \in Signalers, p \in Procs, u \in SignalBytes :
          c = 3 /\ calls[5].pc = "idle" /\ SignalHandler_signal(c, p, u)
    \/ \E c \in Signalers, p \in Procs, u \in SignalBytes :
          c = 3 /\ calls[5].pc = "idle" /\ WasiProcess_signal(c, p, u)
    \/ \E c \in Signalers, p \in Procs, s \in Signals :
          c = 3 /\ calls[5].pc = "idle" /\ signal_process(c, p, s)
    \/ \E c \in Signalers : signal_process_internal(c)

SpecSignalAbi == Init /\ [][NextSignalAbi]_vars

\* One process, its threads ending or being terminated, and callers that join it.
NextJoin ==
    \/ Procs = {} /\ new_process
    \/ \E p \in Procs, is_main \in BOOLEAN : Quiet /\ new_thread(5, p, is_main)
    \/ new_thread_generate_id(5)
    \/ new_thread_with_id_must_upgrade(5)
    \/ new_thread_with_id_register_task(5)
    \/ new_thread_with_id_insert(5)
    \/ new_thread_with_id_return(5)
    \/ new_thread_return(5)
    \/ \E t \in Thrs, v \in ExitValues : calls[5].pc = "idle" /\ thread_exit(t, v)
    \/ \E p \in Procs : calls[5].pc = "idle" /\ terminate(p, 0)
    \/ \E c \in Callers, p \in Procs : calls[5].pc = "idle" /\ join_begin(c, p)
    \/ \E c \in Callers : calls[5].pc = "idle" /\ join_end(c)

SpecJoin == Init /\ [][NextJoin]_vars

\* The same, with callers that poll the process with try_join.
NextTryJoin ==
    \/ NextJoin
    \/ \E p \in Procs : calls[5].pc = "idle" /\ TryJoin(p)

SpecTryJoin == Init /\ [][NextTryJoin]_vars

\* The executor polls a join whose completion woke it: a join that stays ready
\* is resumed.  A call of new_thread that has begun runs on.
SpecJoinFair ==
    /\ SpecJoin
    /\ \A c \in Callers : WF_vars(calls[5].pc = "idle" /\ join_end(c))
    /\ WF_vars(new_thread_generate_id(5) \/ new_thread_with_id_must_upgrade(5)
                  \/ new_thread_with_id_register_task(5) \/ new_thread_with_id_insert(5)
                  \/ new_thread_with_id_return(5) \/ new_thread_return(5))

\* A process and the children it spawns, each with a main thread that ends,
\* and callers that run join_any_child on the parent.
NextJoinAny ==
    \/ Procs = {} /\ new_process
    \/ \E p \in Procs : p = 1 /\ calls[5].pc = "idle" /\ spawn_child(p)
    \/ \E p \in Procs : p = Len(proc) /\ proc[p].threads = <<>> /\ Quiet /\ new_thread(5, p, TRUE)
    \/ new_thread_with_id_must_upgrade(5)
    \/ new_thread_with_id_register_task(5)
    \/ new_thread_with_id_insert(5)
    \/ new_thread_with_id_return(5)
    \/ new_thread_return(5)
    \/ \E t \in Thrs : calls[5].pc = "idle" /\ thread_exit(t, ExitValueOf(t))
    \/ \E c \in Callers, p \in Procs :
          p = 1 /\ calls[c].pc = "idle" /\ calls[5].pc = "idle"
                /\ join_any_child_begin(c, p)
    \/ \E c \in Callers : join_any_child_snapshot(c)
    \/ \E c \in Callers : join_any_child_must_upgrade(c)
    \/ \E c \in Callers : join_any_child_get_process(c)
    \/ \E c \in Callers : join_any_child_poll(c)
    \/ \E c \in Callers : join_any_child_retain(c)
    \/ \E c \in Callers : join_any_child_drop(c)
    \/ \E c \in Callers : join_any_child_return(c)

SpecJoinAny == Init /\ [][NextJoinAny]_vars

\* One process and its interval schedules.
NextInterval ==
    \/ Procs = {} /\ new_process
    \/ \E p \in Procs : p = 1 /\ proc[p].signal_intervals = << >> /\ calls[5].pc = "idle" /\ spawn_child(p)
    \/ \E p \in Procs :
          /\ p = Len(proc)
          /\ proc[p].thread_count = 0
          /\ proc[1].signal_intervals = << >>
          /\ Quiet /\ new_thread(5, p, TRUE)
    \/ new_thread_with_id_must_upgrade(5)
    \/ new_thread_with_id_register_task(5)
    \/ new_thread_with_id_insert(5)
    \/ new_thread_with_id_return(5)
    \/ new_thread_return(5)
    \/ \E p \in Procs, signal \in IntervalSignals, interval \in Intervals,
          repeat \in BOOLEAN : p = 1 /\ calls[5].pc = "idle" /\ signal_interval(p, signal, interval, repeat)

SpecInterval == Init /\ [][NextInterval]_vars

\* The tids signal_thread is called with: the libc value, the largest u32, the
\* pid, every tid of the table, and one that no thread has
SignalTidInputs(p) ==
    {PROCESS_TID, U32_MAX, proc[p].pid, <<0, 9>>} \cup DOMAIN proc[p].threads

\* A process with its threads and children, and signals sent to single
\* threads of the process.
NextSignalThread ==
    \/ Procs = {} /\ new_process
    \/ \E p \in Procs : p = 1 /\ calls[5].pc = "idle" /\ spawn_child(p)
    \/ \E p \in Procs, is_main \in BOOLEAN :
           p = Len(proc) /\ Len(thr) < MaxSigThreads /\ Quiet /\ new_thread(5, p, is_main)
    \/ new_thread_generate_id(5)
    \/ new_thread_with_id_must_upgrade(5)
    \/ new_thread_with_id_register_task(5)
    \/ new_thread_with_id_insert(5)
    \/ new_thread_with_id_return(5)
    \/ new_thread_return(5)
    \/ \E t \in Thrs : calls[5].pc = "idle" /\ drop_thread_handle(t)
    \/ \E p \in Procs, s \in Signals : \E tid \in SignalTidInputs(p) :
           p = 1 /\ signal_thread(p, tid, s)

SpecSignalThread == Init /\ [][NextSignalThread]_vars

\* A process, its children and their main threads; caller 1 joins any child or
\* all children of the first process, the other callers join a process, and
\* both drop suspended calls.
NextWait ==
    \/ Procs = {} /\ new_process
    \/ \E p \in Procs : p = 1 /\ calls[5].pc = "idle" /\ spawn_child(p)
    \/ \E p \in Procs : p = Len(proc) /\ proc[p].threads = <<>> /\ Quiet /\ new_thread(5, p, TRUE)
    \/ new_thread_with_id_must_upgrade(5)
    \/ new_thread_with_id_register_task(5)
    \/ new_thread_with_id_insert(5)
    \/ new_thread_with_id_return(5)
    \/ new_thread_return(5)
    \/ \E t \in Thrs : calls[5].pc = "idle" /\ thread_exit(t, Finished(TRUE, 7))
    \/ \E c \in Callers, p \in Procs : c # 1 /\ calls[5].pc = "idle" /\ join_begin(c, p)
    \/ \E c \in Callers : calls[5].pc = "idle" /\ join_end(c)
    \/ \E c \in Callers, p \in Procs : c = 1 /\ p = 1 /\ calls[5].pc = "idle" /\ join_any_child_begin(c, p)
    \/ \E c \in Callers : calls[5].pc = "idle" /\ join_any_child_snapshot(c)
    \/ \E c \in Callers : join_any_child_must_upgrade(c)
    \/ \E c \in Callers : join_any_child_get_process(c)
    \/ \E c \in Callers : calls[5].pc = "idle" /\ join_any_child_poll(c)
    \/ \E c \in Callers : calls[5].pc = "idle" /\ join_any_child_retain(c)
    \/ \E c \in Callers : calls[5].pc = "idle" /\ join_any_child_drop(c)
    \/ \E c \in Callers : calls[5].pc = "idle" /\ join_any_child_return(c)
    \/ \E c \in Callers, p \in Procs : c = 1 /\ p = 1 /\ calls[5].pc = "idle" /\ join_children_begin(c, p)
    \/ \E c \in Callers : calls[5].pc = "idle" /\ join_children_snapshot(c)
    \/ \E c \in Callers : join_children_must_upgrade(c)
    \/ \E c \in Callers : join_children_get_process(c)
    \/ \E c \in Callers : calls[5].pc = "idle" /\ join_children_poll(c)
    \/ \E c \in Callers : calls[5].pc = "idle" /\ join_children_retain(c)
    \/ \E c \in Callers : calls[5].pc = "idle" /\ join_children_return(c)
    \/ \E c \in Callers : calls[5].pc = "idle" /\ drop_call(c)
    \/ \E c \in Callers : calls[5].pc = "idle" /\ drop_call_next(c)

SpecWait == Init /\ [][NextWait]_vars

\* The registry lock: new_process calls in steps, beside generate_id and
\* get_process calls of other callers.
NextLock ==
    \/ \E c \in Callers : new_process_lock(c)
    \/ \E c \in Callers : new_process_next_id(c)
    \/ \E c \in Callers : new_process_insert(c)
    \/ generate_id
    \/ \E pid \in PidInputs : GetProcess(pid)

SpecLock == InitLate /\ [][NextLock]_vars

\* A process, its children and their main threads, which end with either
\* value, and one caller that joins all children of the first process.
NextJoinChildren ==
    \/ Procs = {} /\ new_process
    \/ \E p \in Procs : p = 1 /\ calls[5].pc = "idle" /\ spawn_child(p)
    \/ \E p \in Procs : p = Len(proc) /\ proc[p].threads = <<>> /\ Quiet /\ new_thread(5, p, TRUE)
    \/ new_thread_with_id_must_upgrade(5)
    \/ new_thread_with_id_register_task(5)
    \/ new_thread_with_id_insert(5)
    \/ new_thread_with_id_return(5)
    \/ new_thread_return(5)
    \/ \E t \in Thrs, v \in ExitValues : calls[5].pc = "idle" /\ thread_exit(t, v)
    \/ \E c \in Callers, p \in Procs : c = 1 /\ p = 1 /\ calls[5].pc = "idle" /\ join_children_begin(c, p)
    \/ \E c \in Callers : calls[5].pc = "idle" /\ join_children_snapshot(c)
    \/ \E c \in Callers : join_children_must_upgrade(c)
    \/ \E c \in Callers : join_children_get_process(c)
    \/ \E c \in Callers : calls[5].pc = "idle" /\ join_children_poll(c)
    \/ \E c \in Callers : calls[5].pc = "idle" /\ join_children_retain(c)
    \/ \E c \in Callers : calls[5].pc = "idle" /\ join_children_return(c)

SpecJoinChildren == Init /\ [][NextJoinChildren]_vars

\* A few processes, their run-tokens and the consultations of their backoff
\* controllers.
NextBackoff ==
    \/ Len(proc) < MaxBackoffProcs /\ new_process
    \/ \E p \in Procs : backoff_consult(p)
    \/ \E p \in Procs : acquire_run_token(p)
    \/ \E p \in Procs : release_run_token(p)

SpecBackoff == Init /\ [][NextBackoff]_vars

\* Caller 1 in join_any_child or join_children and caller 2 in join, suspended
\* while the operations that take the mutex of the process state run on the
\* same process.
NextSuspend ==
    \/ Procs = {} /\ new_process
    \/ \E p \in Procs : p = 1 /\ (\A c \in DOMAIN calls : calls[c].pc = "idle") /\ spawn_child(p)
    \/ \E p \in Procs :
          p = Len(proc) /\ proc[p].thread_count = 0 /\ Quiet /\ new_thread(5, p, TRUE)
    \/ new_thread_with_id_must_upgrade(5)
    \/ new_thread_with_id_register_task(5)
    \/ new_thread_with_id_insert(5)
    \/ new_thread_with_id_return(5)
    \/ new_thread_return(5)
    \/ \E t \in Thrs : calls[5].pc = "idle" /\ NoLookup /\ thread_exit(t, Finished(TRUE, 7))
    \/ \E c \in Callers, p \in Procs :
          c = 2 /\ p = 1 /\ calls[c].pc = "idle" /\ calls[5].pc = "idle" /\ NoLookup
                /\ join_begin(c, p)
    \/ \E c \in Callers : calls[5].pc = "idle" /\ NoLookup /\ join_end(c)
    \/ \E c \in Callers, p \in Procs :
          p = 1 /\ c = 1 /\ calls[c].pc = "idle" /\ calls[5].pc = "idle"
                /\ join_any_child_begin(c, p)
    \/ \E c \in Callers, p \in Procs :
          p = 1 /\ c = 1 /\ calls[c].pc = "idle" /\ calls[5].pc = "idle"
                /\ join_children_begin(c, p)
    \/ \E c \in Callers : calls[5].pc = "idle" /\ inner_lock(c)
    \/ \E c \in Callers : join_any_child_snapshot(c)
    \/ \E c \in Callers : join_any_child_must_upgrade(c)
    \/ \E c \in Callers : join_any_child_get_process(c)
    \/ \E c \in Callers : calls[5].pc = "idle" /\ join_any_child_poll(c)
    \/ \E c \in Callers : calls[5].pc = "idle" /\ join_any_child_retain(c)
    \/ \E c \in Callers : calls[5].pc = "idle" /\ join_any_child_drop(c)
    \/ \E c \in Callers : calls[5].pc = "idle" /\ join_any_child_return(c)
    \/ \E c \in Callers : join_children_snapshot(c)
    \/ \E c \in Callers : join_children_must_upgrade(c)
    \/ \E c \in Callers : join_children_get_process(c)
    \/ \E c \in Callers : calls[5].pc = "idle" /\ join_children_poll(c)
    \/ \E c \in Callers : calls[5].pc = "idle" /\ join_children_retain(c)
    \/ \E c \in Callers : calls[5].pc = "idle" /\ join_children_return(c)
    \/ \E c \in Signalers, p \in Procs :
          c = 3 /\ p = 1 /\ calls[5].pc = "idle" /\ calls[1].pc \in {"jac_wait", "jc_wait"}
                /\ signal_process(c, p, 9)
    \/ \E c \in Signalers : signal_process_internal(c)
    \/ \E p \in Procs :
          p = 1 /\ calls[5].pc = "idle" /\ calls[1].pc \in {"jac_wait", "jc_wait"}
                /\ terminate(p, 3)

SpecSuspend == Init /\ [][NextSuspend]_vars

\* The next step of call c where it is in flight: a new_thread call, a join, a
\* join_any_child or join_children call, or a signal_process call
TreeStep(c) ==
    \/ new_thread_with_id_must_upgrade(c)
    \/ new_thread_with_id_register_task(c)
    \/ new_thread_with_id_insert(c)
    \/ new_thread_with_id_return(c)
    \/ new_thread_return(c)
    \/ calls[5].pc = "idle" /\ inner_lock(c)
    \/ join_any_child_snapshot(c)
    \/ join_any_child_must_upgrade(c)
    \/ join_any_child_get_process(c)
    \/ calls[5].pc = "idle" /\ join_any_child_poll(c)
    \/ calls[5].pc = "idle" /\ join_any_child_retain(c)
    \/ calls[5].pc = "idle" /\ join_any_child_drop(c)
    \/ calls[5].pc = "idle" /\ join_any_child_return(c)
    \/ join_children_snapshot(c)
    \/ join_children_must_upgrade(c)
    \/ join_children_get_process(c)
    \/ calls[5].pc = "idle" /\ join_children_poll(c)
    \/ calls[5].pc = "idle" /\ join_children_retain(c)
    \/ calls[5].pc = "idle" /\ join_children_return(c)
    \/ signal_process_internal(c)

\* A process tree of any shape; a caller runs join_any_child or join_children
\* on the root and removes settled children, two signal_process calls walk the
\* tree lock by lock, one from the root and one from the second process, and
\* the threads of the second process are made, signalled and terminated and a
\* schedule is cancelled under the same mutexes.
NextTree ==
    \/ Procs = {} /\ new_process
    \/ \E p \in Procs :
          (\A c \in DOMAIN calls : calls[c].pc = "idle") /\ spawn_child(p)
    \/ \E p \in Procs :
          /\ p = 2
          /\ proc[p].thread_count = 0
          /\ calls[4].pc = "idle"
          /\ NoLookup
          /\ new_thread(5, p, TRUE)
    \/ \E c \in Callers, p \in Procs :
          c = 1 /\ p = 1 /\ calls[c].pc = "idle" /\ calls[5].pc = "idle"
                /\ join_any_child_begin(c, p)
    \/ \E c \in Callers, p \in Procs :
          c = 1 /\ p = 1 /\ calls[c].pc = "idle" /\ calls[5].pc = "idle"
                /\ join_children_begin(c, p)
    \/ \E c \in Signalers, p \in Procs :
          (c = 3 => p = 1) /\ (c = 4 => p = 2) /\ calls[5].pc = "idle" /\ NoLookup /\ signal_process(c, p, 9)
    \/ \E c \in Callers \cup Signalers \cup Spawners : TreeStep(c)
    \/ \E p \in Procs : p = 2 /\ calls[5].pc = "idle" /\ NoLookup /\ terminate(p, 3)
    \/ \E p \in Procs :
          p = 2 /\ calls[5].pc = "idle" /\ NoLookup /\ signal_thread(p, proc[p].pid, 9)
    \/ \E p \in Procs :
          p = 1 /\ calls[5].pc = "idle" /\ NoLookup
                /\ signal_interval(p, 14, NoInterval, FALSE)

SpecTree == Init /\ [][NextTree]_vars

\* The thread or the executor that runs a call keeps running it, and the
\* mutexes are fair: a call whose next step is possible again and again takes
\* it.
SpecTreeFair ==
    /\ SpecTree
    /\ \A c \in Callers \cup Signalers \cup Spawners : SF_vars(TreeStep(c))

\* A process tree two levels deep, a caller suspended in join_any_child or
\* join_children on the root while children end, and signals to any process.
NextJoinSignal ==
    \/ Procs = {} /\ new_process
    \/ \E p \in Procs :
          (\A c \in DOMAIN calls : calls[c].pc = "idle") /\ spawn_child(p)
    \/ \E p \in Procs :
          /\ p = Len(proc)
          /\ proc[p].threads = <<>>
          /\ calls[3].pc = "idle"
          /\ Quiet /\ new_thread(5, p, TRUE)
    \/ new_thread_with_id_must_upgrade(5)
    \/ new_thread_with_id_register_task(5)
    \/ new_thread_with_id_insert(5)
    \/ new_thread_with_id_return(5)
    \/ new_thread_return(5)
    \/ \E t \in Thrs : thr[t].p # 1 /\ calls[5].pc = "idle" /\ thread_exit(t, Finished(TRUE, 7))
    \/ \E c \in Callers, p \in Procs :
          c = 1 /\ p = 1 /\ calls[c].pc = "idle" /\ calls[5].pc = "idle" /\ join_any_child_begin(c, p)
    \/ \E c \in Callers : join_any_child_snapshot(c)
    \/ \E c \in Callers : join_any_child_must_upgrade(c)
    \/ \E c \in Callers : join_any_child_get_process(c)
    \/ \E c \in Callers : calls[5].pc = "idle" /\ join_any_child_poll(c)
    \/ \E c \in Callers : calls[5].pc = "idle" /\ join_any_child_retain(c)
    \/ \E c \in Callers : calls[5].pc = "idle" /\ join_any_child_drop(c)
    \/ \E c \in Callers : calls[5].pc = "idle" /\ join_any_child_return(c)
    \/ \E c \in Callers, p \in Procs :
          c = 1 /\ p = 1 /\ calls[c].pc = "idle" /\ calls[5].pc = "idle" /\ join_children_begin(c, p)
    \/ \E c \in Callers : join_children_snapshot(c)
    \/ \E c \in Callers : join_children_must_upgrade(c)
    \/ \E c \in Callers : join_children_get_process(c)
    \/ \E c \in Callers : calls[5].pc = "idle" /\ join_children_poll(c)
    \/ \E c \in Callers : calls[5].pc = "idle" /\ join_children_retain(c)
    \/ \E c \in Callers : calls[5].pc = "idle" /\ join_children_return(c)
    \/ \E c \in Signalers, p \in Procs, s \in Signals :
          c = 3 /\ calls[5].pc = "idle" /\ calls[1].pc \in {"jac_wait", "jc_wait"} /\ signal_process(c, p, s)
    \/ \E c \in Signalers : signal_process_internal(c)

SpecJoinSignal == Init /\ [][NextJoinSignal]_vars

\* A process and its children, whose main threads end with Ok, with an error
\* that carries an exit code or with one that carries none, and a caller that
\* runs join_any_child on the process.
NextJoinAnyCodes ==
    \/ Procs = {} /\ new_process
    \/ \E p \in Procs : p = 1 /\ calls[5].pc = "idle" /\ spawn_child(p)
    \/ \E p \in Procs : p = Len(proc) /\ proc[p].threads = <<>> /\ Quiet /\ new_thread(5, p, TRUE)
    \/ new_thread_with_id_must_upgrade(5)
    \/ new_thread_with_id_register_task(5)
    \/ new_thread_with_id_insert(5)
    \/ new_thread_with_id_return(5)
    \/ new_thread_return(5)
    \/ \E t \in Thrs, v \in ExitValuesWithCode : calls[5].pc = "idle" /\ thread_exit(t, v)
    \/ \E c \in Callers, p \in Procs : c = 1 /\ p = 1 /\ calls[5].pc = "idle" /\ join_any_child_begin(c, p)
    \/ \E c \in Callers : calls[5].pc = "idle" /\ join_any_child_snapshot(c)
    \/ \E c \in Callers : join_any_child_must_upgrade(c)
    \/ \E c \in Callers : join_any_child_get_process(c)
    \/ \E c \in Callers : calls[5].pc = "idle" /\ join_any_child_poll(c)
    \/ \E c \in Callers : calls[5].pc = "idle" /\ join_any_child_retain(c)
    \/ \E c \in Callers : calls[5].pc = "idle" /\ join_any_child_drop(c)
    \/ \E c \in Callers : calls[5].pc = "idle" /\ join_any_child_return(c)

SpecJoinAnyCodes == Init /\ [][NextJoinAnyCodes]_vars

\* The control plane, its owners and the handles of its processes: owners come
\* and go and handles are resolved at any time, processes and children are made
\* while an owner is alive, the main thread of the newest process is made at
\* any time, a join_any_child call on the first process begins at any time
\* and runs to its end, and threads end while that call is suspended; a
\* new_thread call that panicked is over.
NextHandle ==
    \/ Procs = {} /\ new_process
    \/ \E p \in Procs : p = 1 /\ NoCallRuns /\ spawn_child(p)
    \/ \E p \in Procs :
          p = Len(proc) /\ proc[p].thread_count = 0 /\ new_thread(5, p, TRUE)
    \/ new_thread_with_id_must_upgrade(5)
    \/ new_thread_with_id_register_task(5)
    \/ new_thread_with_id_insert(5)
    \/ new_thread_with_id_return(5)
    \/ new_thread_return(5)
    \/ \E t \in Thrs :
          /\ calls[5].pc \in {"idle", "done"}
          /\ calls[1].pc = "jac_wait"
          /\ thread_exit(t, Finished(TRUE, 7))
    \/ plane_clone
    \/ plane_drop
    \/ \E p \in Procs, keep \in BOOLEAN : handle_upgrade(p, keep)
    \/ \E c \in Callers, p \in Procs :
          c = 1 /\ p = 1 /\ calls[c].pc = "idle" /\ join_any_child_begin(c, p)
    \/ \E c \in Callers : join_any_child_snapshot(c)
    \/ \E c \in Callers : join_any_child_must_upgrade(c)
    \/ \E c \in Callers : join_any_child_get_process(c)
    \/ \E c \in Callers : calls[5].pc \in {"idle", "done"} /\ join_any_child_poll(c)
    \/ \E c \in Callers : calls[5].pc \in {"idle", "done"} /\ join_any_child_retain(c)
    \/ \E c \in Callers : calls[5].pc \in {"idle", "done"} /\ join_any_child_drop(c)
    \/ \E c \in Callers : calls[5].pc \in {"idle", "done"} /\ join_any_child_return(c)

SpecHandle == Init /\ [][NextHandle]_vars

\* Process trees of every shape, with pids that other IDs lie between; the
\* state a parent link points to goes away at any time, and every process is
\* asked for its parent's pid at any time.
NextPpid ==
    \/ new_process
    \/ generate_id
    \/ \E p \in Procs : spawn_child(p)
    \/ \E p \in Procs : parent_drop(p)
    \/ \E p \in Procs : Ppid(p)

SpecPpid == Init /\ [][NextPpid]_vars

\* The program: every operation, by any caller, on any process, at any time
Next ==
    \/ new_process \/ generate_id \/ RegisterTask \/ DropGuard
    \/ \E c \in Callers : new_process_lock(c) \/ new_process_next_id(c) \/ new_process_insert(c)
    \/ \E pid \in PidInputs : GetProcess(pid)
    \/ \E p \in Procs : spawn_child(p)
    \/ \E c \in Spawners, p \in Procs, is_main \in BOOLEAN : new_thread(c, p, is_main)
    \/ \E c \in Spawners, p \in Procs, is_main \in BOOLEAN : \E tid \in TidInputs(p) :
           new_thread_with_id(c, p, is_main, tid)
    \/ \E c \in Spawners :
           \/ new_thread_generate_id(c)
           \/ new_thread_with_id_must_upgrade(c)
           \/ new_thread_with_id_register_task(c)
           \/ new_thread_with_id_insert(c)
           \/ new_thread_with_id_return(c)
           \/ new_thread_return(c)
    \/ \E t \in Thrs : drop_thread_handle(t)
    \/ \E t \in Thrs, v \in ExitValuesWithCode : thread_exit(t, v)
    \/ \E p \in Procs, code \in {0, 3} : terminate(p, code)
    \/ \E p \in Procs : TryJoin(p)
    \/ \E c \in Callers, p \in Procs :
           join_begin(c, p) \/ join_any_child_begin(c, p) \/ join_children_begin(c, p)
    \/ \E c \in Callers :
           \/ join_end(c)
           \/ join_any_child_snapshot(c)
           \/ join_any_child_must_upgrade(c)
           \/ join_any_child_get_process(c)
           \/ join_any_child_poll(c)
           \/ join_any_child_retain(c)
           \/ join_any_child_drop(c)
           \/ join_any_child_return(c)
           \/ join_children_snapshot(c)
           \/ join_children_must_upgrade(c)
           \/ join_children_get_process(c)
           \/ join_children_poll(c)
           \/ join_children_retain(c)
           \/ join_children_return(c)
           \/ drop_call(c)
           \/ drop_call_next(c)
           \/ inner_lock(c)
    \/ \E c \in Signalers, p \in Procs, s \in Signals : signal_process(c, p, s)
    \/ \E c \in Signalers : signal_process_internal(c)
    \/ \E c \in Signalers, p \in Procs, u \in SignalBytes :
           SignalHandler_signal(c, p, u) \/ WasiProcess_signal(c, p, u)
    \/ \E p \in Procs, s \in Signals : \E tid \in SignalTidInputs(p) : signal_thread(p, tid, s)
    \/ \E p \in Procs, signal \in IntervalSignals, interval \in Intervals, repeat \in BOOLEAN :
           signal_interval(p, signal, interval, repeat)
    \/ \E p \in Procs : backoff_consult(p) \/ acquire_run_token(p) \/ release_run_token(p)
    \/ plane_clone \/ plane_drop
    \/ \E p \in Procs, keep \in BOOLEAN : handle_upgrade(p, keep)
    \/ \E p \in Procs : Ppid(p) \/ parent_drop(p)

Spec == Init /\ [][Next]_vars
\* ------------------------------------------------------------------- claims
\* The IDs new_process returned, in the order the calls took the registry lock
PidsIssued == SelectSeq(issued, LAMBDA e : e.kind = "proc")

\* C1: the pids new_process returns are pairwise distinct and strictly increasing
\* in the order the calls take the registry lock, and no two registered
\* processes have the same pid.
C1_PidsIncreasing ==
    /\ \A i, j \in DOMAIN PidsIssued :
          i < j => U32Less(PidsIssued[i].id, PidsIssued[j].id)
    /\ \A a, b \in Procs : a # b => proc[a].pid # proc[b].pid
    /\ \A k \in DOMAIN processes : proc[processes[k]].pid = k
    /\ Cardinality(DOMAIN processes) = Len(proc)

C1_Witness ==
    /\ Len(PidsIssued) >= 3
    /\ \E i \in DOMAIN issued : i > 1 /\ i < Len(issued) /\ issued[i].kind = "id"

\* C2: in every state thread_count equals the number of entries of the thread
\* table, also after new_thread(MainThread) is called twice on a process and
\* after new_thread_with_id is called with a tid that is in the table.
C2_ThreadCountIsTableSize ==
    \A p \in Procs : proc[p].thread_count = Cardinality(DOMAIN proc[p].threads)

\* The thread objects the successful new_thread calls on p made, and those of
\* them that were removed since
Created(p) == {t \in Thrs : thr[t].p = p}

Removed(p) == {t \in Created(p) : ~thr[t].handle}

\* C3: after N successful new_thread calls and M removals active_threads()
\* returns N - M, is never negative and is the size of the thread table.
C3_ActiveThreads ==
    \A p \in Procs :
        /\ active_threads(p) = Cardinality(Created(p)) - Cardinality(Removed(p))
        /\ active_threads(p) >= 0
        /\ active_threads(p) = Cardinality(DOMAIN proc[p].threads)

\* The TaskCountGuards alive: those callers hold and those thread objects own
LiveGuards == free_guards + Cardinality({t \in Thrs : thr[t].guard})

\* C4: the global task counter equals the number of TaskCountGuards alive,
\* whether the paths that owned the dropped guards succeeded or failed, and is
\* never below zero.
C4_TaskCountIsLiveGuards == task_count = LiveGuards /\ task_count >= 0

C4_Witness ==
    /\ last.op = "drop_guard"
    /\ ~last.ok
    /\ last.ret = 2
    /\ task_count = 1

\* No ID was issued twice.
NoIdReissued(ids) == \A i, j \in DOMAIN ids : i # j => ids[i].id # ids[j].id

\* C10: once the ID counter is at the 32-bit maximum new_process and generate_id
\* return TaskLimitReached, the counter stays, no ID issued before is issued
\* again, and the failed new_process leaves the process map as it was.
C10_Exhaustion ==
    [][process_seed = U32_MAX =>
          /\ process_seed' = U32_MAX
          /\ issued' = issued
          /\ NoIdReissued(issued')
          /\ processes' = processes
          /\ proc' = proc
          /\ last'.op \in {"new_process", "generate_id"} =>
                 ~last'.ok /\ last'.err = "TaskLimitReached"]_vars

C10_Witness ==
    /\ process_seed = U32_MAX
    /\ last.op = "new_process"
    /\ last.err = "TaskLimitReached"
    /\ Len(proc) >= 1

\* The callers whose join() on p has returned
Joined(p) == {c \in Callers : calls[c].pc = "done" /\ calls[c].p = p}

\* C5: callers that join the same process receive the same result, none before
\* set_status_finished was called on its completion, and the result is the
\* value that call passed.
C5_JoinSameResult ==
    \A p \in Procs : \A c \in Joined(p) :
        /\ calls[c].fin
        /\ FinishIndex(p) # 0
        /\ calls[c].ok = finish_log[FinishIndex(p)].v.ok
        /\ calls[c].code = finish_log[FinishIndex(p)].v.code
        /\ \A d \in Joined(p) : calls[d].ok = calls[c].ok /\ calls[d].code = calls[c].code
        /\ Cardinality({i \in DOMAIN finish_log : finish_log[i].p = p}) = 1

C5_Witness ==
    /\ Joined(1) = Callers
    /\ \A c \in Callers : ~calls[c].ok /\ calls[c].code = -1
    /\ proc[1].waiting = 0

\* C6: signal_process on a process without children delivers the signal, in
\* that call, to every thread of the thread table, whatever the waiting counter
\* is, and leaves the children list, the thread table, thread_count and the
\* signal-interval table as they were.
C6_SignalReachesEveryThread ==
    [][(last'.op = "signal_process" /\ proc[last'.p].children = <<>>) =>
          /\ \A t \in Range(proc[last'.p].threads) :
                 /\ Count(last'.delivered, t) = 1
                 /\ last'.arg \in thr'[t].signals
          /\ proc' = proc]_vars

C6_Witness ==
    /\ last.op = "signal_process"
    /\ proc[last.p].children = <<>>
    /\ last.pre > 0
    /\ Cardinality(Range(proc[last.p].threads)) = 2
    /\ \A t \in Range(proc[last.p].threads) : thr[t].signals = {last.arg}

\* C7: signal_process on a process with waiting > 0 and a non-empty children
\* list hands the signal to every child of the list and delivers it to none of
\* the process's own threads.
C7_SignalForwardedToChildren ==
    [][(last'.op = "signal_process" /\ last'.pre > 0
            /\ proc[last'.p].children # <<>>) =>
          /\ \A i \in DOMAIN proc[last'.p].children :
                 Count(last'.forwarded, proc[last'.p].children[i]) >= 1
          /\ \A t \in Range(proc[last'.p].threads) :
                 Count(last'.delivered, t) = 0 /\ thr'[t] = thr[t]]_vars

C7_Witness ==
    /\ last.op = "signal_process"
    /\ last.pre > 0
    /\ Len(proc[last.p].children) = 2
    /\ Range(proc[last.p].threads) # {}
    /\ \A t \in Range(proc[last.p].threads) : thr[t].signals = {}
    /\ last.delivered # <<>>

\* The joins of a snapshot that are ready
Ready(snap) == {i \in DOMAIN snap : proc[snap[i].process].finished.fin}

\* The children of a snapshot
SnapChildren(snap) == {snap[i].child : i \in DOMAIN snap}

\* The children of a snapshot whose completion is finished
SnapFinished(snap) == {a \in SnapChildren(snap) : proc[a].finished.fin}

\* Process a settled before process b did (or b has not settled)
FinishedFirst(a, b) ==
    FinishIndex(a) # 0 /\ (FinishIndex(b) = 0 \/ FinishIndex(a) < FinishIndex(b))

\* C8, as claimed: a join_any_child call that suspended on the children {A, B}
\* returns A when A finishes first.
C8_ReturnsFirstFinished ==
    \A c \in Callers :
        (calls[c].pc = "done" /\ calls[c].ok /\ calls[c].suspended
            /\ Cardinality(SnapChildren(calls[c].snap)) = 2) =>
        \A b \in SnapChildren(calls[c].snap) \ {calls[c].child} :
            FinishedFirst(calls[c].child, b)

\* C8, amended: join_any_child on the children {A, B}, where A has finished and
\* B has not when the call polls the joins, returns (A.pid, A's exit code),
\* removes only A from the children list and leaves B in it; a later call,
\* polling after B finished, returns (B.pid, B's exit code).
C8_ReturnsTheFinishedChild ==
    [][\A c \in Callers :
          LET p == calls[c].p
              snap == calls[c].snap
          IN  /\ (calls[c].pc \in {"jac_poll", "jac_wait"} /\ calls'[c].pc = "jac_retain") =>
                    LET a == calls'[c].child
                    IN  /\ a \in SnapFinished(snap)
                        /\ Cardinality(Ready(snap)) = 1 => a = snap[CHOOSE i \in Ready(snap) : TRUE].child
                        /\ calls'[c].pid = proc[a].pid
                        /\ calls'[c].code = CodeOf(finish_log[FinishIndex(a)].v)
                        /\ \A q \in Procs : proc'[q].children = proc[q].children
              /\ (calls[c].pc = "jac_retain" /\ calls'[c].pc # "jac_retain") =>
                    /\ proc'[p].children =
                           SelectSeq(proc[p].children, LAMBDA b : b # calls[c].child)
                    /\ \A q \in Procs \ {p} : proc'[q].children = proc[q].children
              /\ (calls[c].pc = "jac_ret" /\ calls[c].ok /\ calls'[c].pc = "done") =>
                    /\ last'.op = "join_any_child" /\ last'.ok
                    /\ last'.arg = calls[c].child
                    /\ last'.id = proc[calls[c].child].pid
                    /\ last'.ret = CodeOf(proc[calls[c].child].finished)
                    /\ \A q \in Procs : proc'[q].children = proc[q].children]_vars

C8_Witness ==
    /\ calls[1].pc = "done" /\ calls[1].ok /\ calls[1].suspended
    /\ Cardinality(SnapChildren(calls[1].snap)) = 2
    /\ calls[2].pc = "done" /\ calls[2].ok
    /\ SnapChildren(calls[2].snap) = SnapChildren(calls[1].snap) \ {calls[1].child}
    /\ calls[2].child # calls[1].child
    /\ calls[2].code # calls[1].code
    /\ proc[1].children = <<>>

\* The program points of a join, join_any_child or join_children call between
\* the taking of its waiting guard and the drop of it
JoinPcs ==
    {"join", "jac", "jac_up", "jac_get", "jac_poll", "jac_wait", "jac_retain", "jac_drop",
     "jac_ret", "jc", "jc_up", "jc_get", "jc_poll", "jc_wait", "jc_retain", "jc_ret",
     "dropping"}

\* The calls that hold a waiting guard of process p: the join, join_any_child
\* and join_children calls on p, and the joins such a call polled on p
Waiters(p) ==
    Cardinality({c \in Callers : calls[c].pc \in JoinPcs /\ calls[c].p = p})
    + SeqSum([c \in 1..Cardinality(Callers) |->
                Cardinality({i \in calls[c].polled : calls[c].snap[i].process = p})])

\* C9: join_any_child on a process whose children list is empty when it is
\* snapshotted fails with NoChild (Errno::Child) without suspending, leaves the
\* children list as it was, and gives back its waiting guard: the counter is
\* what the calls still in progress hold.
C9_NoChild ==
    [][\A c \in Callers :
          LET p == calls[c].p
          IN  /\ (calls[c].pc = "jac" /\ calls'[c].pc # "jac"
                     /\ proc[p].children = <<>>) =>
                    /\ calls'[c].pc = "jac_ret"
                    /\ ~calls'[c].ok
                    /\ calls'[c].err = "Child"
                    /\ proc' = proc
              /\ (calls[c].pc = "jac_ret" /\ ~calls[c].ok) =>
                    /\ ENABLED join_any_child_return(c)
                    /\ calls'[c] # calls[c] =>
                          /\ calls'[c].pc = "done"
                          /\ ~calls'[c].ok
                          /\ calls'[c].err = "Child"
                          /\ ~calls'[c].suspended
                          /\ last'.op = "join_any_child" /\ last'.err = "Child"
                          /\ proc'[p].children = proc[p].children
                          /\ proc'[p].waiting = proc[p].waiting - 1
                          /\ proc'[p].waiting = Waiters(p)']_vars

C9_Witness ==
    /\ last.op = "join_any_child"
    /\ last.err = "Child"
    /\ calls[last.c].pc = "done"
    /\ proc[last.p].children # <<>>
    /\ proc[last.p].waiting = 1
    /\ \E c \in Callers : calls[c].p = last.p /\ calls[c].pc = "jac"

\* The IDs generate_id returned, in the order of the calls (new_thread mints the
\* tid of a non-main thread through generate_id)
IdsGenerated == SelectSeq(issued, LAMBDA e : e.kind = "id")

\* C11: process IDs and thread IDs come from one counter: an ID generate_id
\* returned, and so the tid of a non-main thread new_thread made, equals no pid
\* new_process returned and no other ID generate_id returned, in any order of
\* the calls.
C11_OneCounter ==
    /\ \A i \in DOMAIN IdsGenerated :
          /\ \A j \in DOMAIN PidsIssued : IdsGenerated[i].id # PidsIssued[j].id
          /\ \A j \in DOMAIN IdsGenerated :
                 i # j => IdsGenerated[i].id # IdsGenerated[j].id
    /\ \A t \in Thrs :
          ~thr[t].is_main =>
              /\ \A p \in Procs : thr[t].tid # proc[p].pid
              /\ \A u \in Thrs : u # t /\ ~thr[u].is_main => thr[u].tid # thr[t].tid
              /\ \E i \in DOMAIN IdsGenerated : IdsGenerated[i].id = thr[t].tid

C11_Witness ==
    /\ \E i, j, k \in DOMAIN issued :
          /\ i < j /\ j < k
          /\ issued[i].kind = "proc" /\ issued[j].kind = "id" /\ issued[k].kind = "proc"
    /\ \E t, u \in Thrs : t # u /\ ~thr[t].is_main /\ ~thr[u].is_main
    /\ Len(PidsIssued) >= 2

\* C12: new_thread gives the thread tid = pid when the start kind is the main
\* thread and otherwise a tid freshly minted from the allocator (an ID the
\* allocator gave once, for this thread and nothing else), and get_thread(tid)
\* finds the returned thread afterwards.
C12_NewThreadTid ==
    (last.op = "new_thread" /\ last.ok) =>
        LET t == last.arg
            p == last.p
        IN  /\ thr[t].tid = last.id
            /\ thr[t].p = p
            /\ thr[t].is_main => last.id = proc[p].pid
            /\ ~thr[t].is_main =>
                   /\ Cardinality({i \in DOMAIN issued : issued[i].id = last.id}) = 1
                   /\ \A i \in DOMAIN issued : issued[i].id = last.id => issued[i].kind = "id"
                   /\ \A u \in Thrs \ {t} : thr[u].tid # last.id
            /\ get_thread(p, last.id) = t

C12_Witness ==
    /\ last.op = "new_thread"
    /\ last.ok
    /\ ~thr[last.arg].is_main
    /\ get_thread(last.p, last.id) = last.arg
    /\ \E u \in Thrs : thr[u].is_main /\ thr[u].handle /\ thr[u].tid = proc[last.p].pid
    /\ Len(issued) >= 3

\* C14: for every process new_process returned the allocated ID is stored so
\* that the handle's pid() and the pid field duplicated inside its ProcessState
\* both equal that ID, and the registry copy reports the same pid.
C14_PidStoredInBothPlaces ==
    \A k \in DOMAIN processes :
        LET o == processes[k]
        IN  /\ proc[o].pid = k
            /\ proc[o].inner_pid = k
            /\ proc[get_process(k)].pid = k

\* Some(v) as try_join returns it
SomeResult(v) == [some |-> TRUE, ok |-> v.ok, code |-> v.code]

\* C13: the main thread's status is the completion object of its process:
\* marking the main thread finished with v makes try_join() return v and makes
\* the join of every waiting caller ready with v; marking a non-main thread
\* finished leaves the completion of the process as it was, Pending included.
C13_MainThreadStatusIsCompletion ==
    [][\A t \in Thrs, v \in ExitValues :
          thread_exit(t, v) =>
              LET p == thr[t].p
              IN  IF thr[t].is_main
                  THEN /\ try_join(p)' = SomeResult(v)
                       /\ JoinReady(p)'
                       /\ proc'[p].finished = v
                       /\ proc'[p].waiting = proc[p].waiting
                  ELSE /\ proc'[p].finished = proc[p].finished
                       /\ try_join(p)' = try_join(p)
                       /\ thr'[t].status = v]_vars

C13_Witness ==
    /\ finish_log = <<[p |-> 1, v |-> Finished(FALSE, -1)]>>
    /\ try_join(1) = SomeResult(Finished(FALSE, -1))
    /\ \A c \in Callers : calls[c].pc = "done" /\ calls[c].p = 1 /\ ~calls[c].ok
    /\ \E t \in Thrs :
          /\ ~thr[t].is_main
          /\ thr[t].status = Finished(TRUE, 7)
    /\ \E t \in Thrs : thr[t].is_main /\ thr[t].handle

\* C15: get_process(p) returns the process registered under p exactly when p
\* was returned by an earlier new_process on this control plane; the map never
\* loses or changes an entry, also after the process has finished; get_process
\* leaves the registry as it was.
C15_RegistryLookup ==
    [][/\ \A k \in DOMAIN processes :
             k \in DOMAIN processes' /\ processes'[k] = processes[k]
       /\ last'.op = "get_process" =>
             /\ processes' = processes
             /\ proc' = proc
             /\ process_seed' = process_seed
             /\ last'.ok <=> \E i \in DOMAIN PidsIssued : PidsIssued[i].id = last'.id
             /\ \A i \in DOMAIN PidsIssued :
                    PidsIssued[i].id = last'.id =>
                        last'.arg = i /\ proc[last'.arg].pid = last'.id]_vars

C15_Witness ==
    /\ last.op = "get_process"
    /\ last.ok
    /\ last.arg = 1
    /\ proc[1].finished.fin
    /\ Len(proc) >= 2
    /\ \E i \in DOMAIN issued : issued[i].kind = "id"

\* C17: register_task never fails: for every value of the task counter and
\* every configured max_task_count it adds one to the counter and returns a
\* guard, so the number of live tasks can exceed max_task_count.
C17_RegisterTaskNeverFails ==
    [][last'.op = "register_task" =>
          /\ last'.ok
          /\ last'.err = ""
          /\ last'.ret = task_count
          /\ task_count' = task_count + 1
          /\ free_guards' = free_guards + 1]_vars

C17_Witness ==
    /\ last.op = "register_task"
    /\ last.ok
    /\ last.arg = 1
    /\ last.ret = 1
    /\ task_count = 2
    /\ LiveGuards > last.arg

\* C19: signal_interval(sig, Some(d), false) followed immediately by
\* signal_interval(sig, None, _) leaves no schedule for sig and leaves the
\* schedules of every other signal as they were before the two calls.
C19_InstallThenClear ==
    (last.op = "signal_interval" /\ ~last.some /\ last.chained) =>
        LET tab == proc[last.p].signal_intervals
        IN  /\ last.arg \notin DOMAIN tab
            /\ \A s \in IntervalSignals \ {last.arg} :
                   /\ s \in DOMAIN tab <=> s \in DOMAIN last.before2
                   /\ s \in DOMAIN tab => tab[s] = last.before2[s]

C19_Witness ==
    /\ last.op = "signal_interval"
    /\ ~last.some
    /\ last.chained
    /\ last.arg \in DOMAIN last.before
    /\ last.arg \notin DOMAIN last.before2
    /\ DOMAIN proc[last.p].signal_intervals = IntervalSignals \ {last.arg}

\* The thread of last.p that the last signal_thread call should reach when its
\* tid argument stands for the process: the one under tid = pid (0: none)
ProcessThread == get_thread(last.p, proc[last.p].pid)

\* C20 as stated: signal_thread called with the maximum value of the 32-bit TID
\* sends the signal to the thread whose tid equals the pid.
C20_SentinelIsMaxTid ==
    (last.op = "signal_thread" /\ last.id = U32_MAX) =>
        /\ last.ret = ProcessThread
        /\ last.ok <=> ProcessThread # 0

\* C20: signal_thread called with the TID 1073741823 (2^30 - 1) replaces it by
\* the pid before the table lookup, so the signal goes to the thread whose tid
\* equals the pid; every other tid, the 32-bit maximum included, is looked up
\* as given.
C20_SentinelIsLibcValue ==
    last.op = "signal_thread" =>
        /\ last.id = PROCESS_TID =>
               /\ last.ret = ProcessThread
               /\ last.ok <=> ProcessThread # 0
        /\ last.id # PROCESS_TID => last.ret = get_thread(last.p, last.id)
        /\ last.ok => last.arg \in thr[last.ret].signals
        /\ last.id = U32_MAX => ~last.ok

C20_Witness ==
    /\ last.op = "signal_thread"
    /\ last.id = PROCESS_TID
    /\ last.ok
    /\ thr[last.ret].is_main
    /\ thr[last.ret].tid = proc[last.p].pid
    /\ last.arg \in thr[last.ret].signals
    /\ \E u \in Thrs : ~thr[u].is_main /\ thr[u].handle /\ thr[u].signals = {}

\* C18: while a join, join_children or join_any_child call on a process is in
\* progress the waiting counter of the process holds one for it, and gives it
\* back however the call exits (result, error, or the caller dropping the
\* suspended call): in every state the counter equals the number of such calls
\* in progress on the process, and is 0 when there are none.
C18_WaitingCountsCalls ==
    \A p \in Procs :
        /\ proc[p].waiting = Waiters(p)
        /\ proc[p].waiting >= 0
        /\ (\A c \in Callers : calls[c].pc \in {"idle", "done"}) => proc[p].waiting = 0

C18_Witness ==
    /\ last.op = "drop_call"
    /\ last.ret >= 1
    /\ calls[last.c].pc = "idle"
    /\ \E c \in Callers : calls[c].pc = "done" /\ calls[c].fin /\ calls[c].p # 1
    /\ \A c \in Callers : calls[c].pc \in {"idle", "done"}
    /\ \A p \in Procs : proc[p].waiting = 0
    /\ Len(proc) >= 2

\* C16: under concurrent new_process, generate_id and get_process calls the
\* advance of the ID counter and the map insertion of one new_process are one
\* atomic step: no caller is told by get_process that an ID already allocated
\* to a new process has no entry, and whenever the registry lock is free every
\* pid allocated has its entry.
C16_AllocateAndInsertAtomic ==
    /\ (last.op = "get_process" /\ \E i \in DOMAIN PidsIssued : PidsIssued[i].id = last.id)
           => last.ok /\ proc[last.arg].pid = last.id
    /\ ~WriteLocked => \A i \in DOMAIN PidsIssued : get_process(PidsIssued[i].id) # 0

C16_Witness ==
    /\ last.op = "get_process"
    /\ last.ok
    /\ last.id = PidsIssued[Len(PidsIssued)].id
    /\ Len(PidsIssued) >= 2
    /\ \E c \in Callers : calls[c].pc = "done" /\ calls[c].child = last.arg
    /\ \E i \in DOMAIN issued : issued[i].kind = "id"

\* C21: signal_thread for a tid that is not in the thread table drops the
\* signal: no thread of the process and no child is signalled, no error is
\* returned and the process state is unchanged; when the tid is in the table
\* exactly that one thread is signalled.
C21_LostSignal ==
    [][last'.op = "signal_thread" =>
          LET p == last'.p
              tid == ResolveTid(p, last'.id)
          IN  /\ proc' = proc
              /\ last'.err = ""
              /\ tid \notin DOMAIN proc[p].threads =>
                     /\ thr' = thr
                     /\ ~last'.ok
              /\ tid \in DOMAIN proc[p].threads =>
                     LET target == proc[p].threads[tid]
                     IN  /\ last'.ok /\ last'.ret = target
                         /\ thr'[target].signals = thr[target].signals \cup {last'.arg}
                         /\ \A t \in Thrs : t # target => thr'[t] = thr[t]]_vars

C21_Witness ==
    /\ last.op = "signal_thread"
    /\ ~last.ok
    /\ last.p = 1
    /\ last.id = <<0, 9>>
    /\ \E t \in Thrs : thr[t].p = 1 /\ thr[t].handle
    /\ \E t \in Thrs : thr[t].p # 1 /\ thr[t].handle
    /\ \A t \in Thrs : thr[t].signals = {}

\* The child of a snapshot that settled before every other child of it (0 while
\* none has settled)
FirstSettled(snap) ==
    LET done == {a \in SnapChildren(snap) : FinishIndex(a) # 0}
    IN  IF done = {} THEN 0
        ELSE CHOOSE a \in done : \A b \in done : FinishIndex(a) <= FinishIndex(b)

\* The result join_children handed to caller c
Returned(c) == [fin |-> calls[c].fin, ok |-> calls[c].ok, code |-> calls[c].code]

\* C22, as claimed: join_children returns the result of the child join that
\* settles first among the children snapshotted at call time.
C22_ReturnsFirstSettled ==
    (last.op = "join_children" /\ last.arg # 0) =>
        LET snap == calls[last.c].snap
        IN  /\ FirstSettled(snap) # 0
            /\ Returned(last.c) = finish_log[FinishIndex(FirstSettled(snap))].v

\* C22: join_children returns when the joins of all children snapshotted at
\* call time have settled, and returns the result of the join of the first
\* child of the snapshot (the oldest child in the children list), whichever
\* child settled first; every snapshotted child has left the children list.
C22_ReturnsFirstOfSnapshot ==
    (last.op = "join_children" /\ last.arg # 0) =>
        LET snap == calls[last.c].snap
            first == CHOOSE a \in SnapChildren(snap) : \A b \in SnapChildren(snap) : a <= b
        IN  /\ \A a \in SnapChildren(snap) : proc[a].finished.fin
            /\ last.arg = first
            /\ calls[last.c].child = first
            /\ Returned(last.c) = finish_log[FinishIndex(first)].v
            /\ \A a \in SnapChildren(snap) : a \notin Range(proc[last.p].children)

C22_Witness ==
    /\ last.op = "join_children"
    /\ last.arg = 2
    /\ calls[last.c].suspended
    /\ SnapChildren(calls[last.c].snap) = {2, 3}
    /\ FirstSettled(calls[last.c].snap) = 3
    /\ proc[2].finished # proc[3].finished
    /\ Returned(last.c) = proc[2].finished

\* Ok(code) as a finished status
OkCode(code) == Finished(TRUE, code)

\* C23, as claimed: terminate(code) marks the status of every thread of the
\* thread table as finished with Ok(code), each status being finished once.
C23_EveryThreadOkCode ==
    last.op = "terminate" =>
        /\ \A t \in Range(proc[last.p].threads) : StatusOf(t) = OkCode(last.arg)
        /\ last.logic_errors = 0

\* C24: a completion object moves from Pending to Finished at most once: once
\* it is Finished(v) it never returns to Pending and never takes another value,
\* and every set_status_finished on an object that is finished already is
\* reported as a logic error and not applied, also when terminate is called
\* twice on a process or after one of its threads has finished.
C24_FinishedOnce ==
    [][/\ \A p \in Procs :
             proc[p].finished.fin => proc'[p].finished = proc[p].finished
       /\ \A t \in Thrs : thr[t].status.fin => thr'[t].status = thr[t].status
       /\ \A t \in Thrs : StatusOf(t).fin => StatusOf(t)' = StatusOf(t)
       /\ \A i \in DOMAIN finish_log : finish_log'[i] = finish_log[i]
       /\ \A i, j \in DOMAIN finish_log' :
             i # j => finish_log'[i].p # finish_log'[j].p
       /\ \A p \in Procs :
             (last'.op = "terminate" /\ last'.p = p) =>
             LET table == Range(proc[p].threads)
                 mains == Cardinality({t \in table : thr[t].shared})
             IN  last'.logic_errors =
                     Cardinality({t \in table : ~thr[t].shared /\ thr[t].status.fin})
                         + (IF proc[p].finished.fin THEN mains
                            ELSE IF mains = 0 THEN 0 ELSE mains - 1)
       /\ last'.op # "terminate" =>
             /\ last'.logic_errors = 0
             /\ \A t \in Thrs : StatusOf(t)' # StatusOf(t) => ~StatusOf(t).fin]_vars

C24_Witness ==
    /\ last.op = "terminate"
    /\ last.ret = Cardinality(Range(proc[last.p].threads))
    /\ last.ret >= 2
    /\ last.logic_errors = last.ret
    /\ proc[last.p].finished = Finished(TRUE, 7)
    /\ \E t \in Range(proc[last.p].threads) :
          ~thr[t].is_main /\ thr[t].status = Finished(FALSE, -1)

\* C25: with zero run-tokens held, successive consultations of the CPU backoff
\* controller never decrease the suggested sleep and never exceed the
\* configured maximum (30 s for a process); once a run-token is acquired the
\* next consultation returns the floor value.
C25_BackoffMonotonic ==
    [][\A p \in Procs :
          /\ proc'[p].backoff.cpu_backoff_time <= MaxCpuBackoffTime
          /\ (last'.op = "backoff_consult" /\ last'.p = p) =>
                 /\ last'.ret = proc'[p].backoff.cpu_backoff_time
                 /\ proc[p].cpu_run_tokens = 0 =>
                        /\ last'.ret >= proc[p].backoff.cpu_backoff_time
                        /\ last'.ret <= MaxCpuBackoffTime
                 /\ proc[p].cpu_run_tokens > 0 => last'.ret = BackoffFloor]_vars

C25_Witness ==
    /\ last.op = "backoff_consult"
    /\ last.arg = 0
    /\ last.pre = MaxCpuBackoffTime
    /\ last.ret = MaxCpuBackoffTime

C27_UpgradeWhileOwned ==
    [][/\ last'.op = "upgrade" => (last'.ok <=> owners > 0)
       /\ owners = 0 => owners' = 0
       /\ owners' = 0 => processes' = << >>
       /\ last'.op \notin {"upgrade", "plane_clone", "plane_drop"} =>
              owners' - Held' = owners - Held
       /\ last'.err = "panic" =>
              /\ owners = 0
              /\ last'.op \in {"new_thread", "join_any_child"}
              /\ thr' = thr
              /\ task_count' = task_count]_vars

C27_Witness ==
    /\ last.op = "upgrade"
    /\ ~last.ok
    /\ owners = 0
    /\ Len(proc) >= 2
    /\ \E t \in Thrs : thr[t].handle /\ thr[t].guard

\* The program points at which a join, join_any_child or join_children call is
\* suspended
SuspendedPcs == {"join", "jac_wait", "jc_wait"}

\* C28: a suspended join, join_any_child or join_children call does not hold
\* the mutex of the process state; while every join call on a process is
\* suspended (or has returned) and no signal_process call holds its mutex,
\* signal_thread, signal_interval and terminate on that process take the mutex
\* and complete, and so do the signal_process and new_thread calls that have
\* come to it.
C28_NoLockWhileSuspended ==
    /\ \A c \in Callers : calls[c].pc \in SuspendedPcs => ~calls[c].lock
    /\ \A p \in Procs :
          (/\ \A c \in Callers : calls[c].p = p => calls[c].pc \in SuspendedPcs \cup {"done"}
           /\ \A c \in Signalers : ~HoldsInner(c, p))
          => /\ ENABLED signal_thread(p, proc[p].pid, 9)
             /\ ENABLED signal_interval(p, 9, NoInterval, FALSE)
             /\ ENABLED terminate(p, 3)
             /\ \A c \in Signalers :
                    (calls[c].pc = "sp_lock" /\ calls[c].want = p) =>
                        ENABLED signal_process_internal(c)
             /\ \A c \in Spawners :
                    (calls[c].pc = "ntw_ins" /\ calls[c].p = p) =>
                        ENABLED new_thread_with_id_insert(c)

C28_Witness ==
    /\ calls[1].pc \in {"jac_wait", "jc_wait"}
    /\ calls[2].pc = "join"
    /\ calls[1].p = 1
    /\ calls[2].p = 1
    /\ last.op = "terminate"
    /\ last.p = 1

\* C29: a join() call that waits on a process whose completion is finished
\* returns: every waiter of the transition is ready to resume at once, and a
\* join() started after the transition is ready as well; under the fairness
\* of the executor each of them returns.
C29_JoinReturns ==
    \A c \in Callers :
        /\ [](calls[c].pc = "join" /\ proc[calls[c].p].finished.fin
                  => ENABLED join_end(c))
        /\ (calls[c].pc = "join" /\ proc[calls[c].p].finished.fin)
               ~> (calls[c].pc = "done" /\ calls[c].fin)

C29_Witness ==
    /\ \A c \in Callers : calls[c].pc = "join" /\ calls[c].p = 1
    /\ proc[1].finished.fin
    /\ last.op = "terminate"
    /\ last.ret = 0

\* C30, as claimed: new_thread is all-or-nothing.  A call that succeeds has
\* raised the task counter by one, for the guard the thread holds, and its
\* insertion leaves the thread table of the process with one entry more and
\* thread_count one higher; a call that fails because the ID allocation fails
\* has left the thread table, thread_count and the task counter as they were.
C30_AllOrNothing ==
    /\ [][\A c \in Spawners :
             (calls[c].pc = "ntw_reg" /\ calls'[c].pc = "ntw_ins") =>
                 /\ task_count' = task_count + 1
                 /\ proc' = proc /\ thr' = thr]_vars
    /\ [][\A c \in Spawners :
             (/\ calls[c].opname = "new_thread"
              /\ calls[c].pc = "ntw_ins" /\ calls'[c].pc = "ntw_ret") =>
                 LET p == calls[c].p
                 IN  /\ last'.op = "new_thread" /\ last'.ok /\ last'.p = p
                     /\ Cardinality(DOMAIN proc'[p].threads)
                           = Cardinality(DOMAIN proc[p].threads) + 1
                     /\ proc'[p].thread_count = proc[p].thread_count + 1
                     /\ task_count' = task_count
                     /\ thr'[last'.arg].guard]_vars
    /\ [][\A c \in Spawners :
             (calls[c].pc = "nt_id" /\ calls'[c].pc = "nt_ret") =>
                 /\ last'.op = "new_thread" /\ ~last'.ok
                 /\ ~calls[c].guard
                 /\ proc' = proc
                 /\ thr' = thr
                 /\ task_count' = task_count]_vars

\* C31: a join_children call with a non-empty snapshot takes out of the live
\* children list the snapshotted children whose joins have settled, and only
\* those, each time it is polled; it does not return while a snapshotted child
\* is pending, and when it returns no snapshotted child is in the list, while
\* the children pushed after the snapshot are still there; the joins are built
\* for the children of the snapshot, which the registry knows.  With no
\* children at call time it returns None without suspending.
C31_JoinChildrenRemovesSettled ==
    [][\A c \in Callers :
          LET p == calls[c].p
              snap == calls[c].snap
          IN  /\ (calls[c].pc \in {"jc_poll", "jc_wait"} /\ calls'[c] # calls[c]
                     /\ snap # << >>) =>
                    /\ \A q \in Procs : proc'[q].children = proc[q].children
                    /\ calls'[c].pc = "jc_retain" =>
                          snap[calls[c].idx].child \in SnapFinished(snap)
                    /\ calls'[c].pc # "jc_ret"
              /\ (calls[c].pc = "jc_retain" /\ calls'[c] # calls[c]) =>
                    LET a == snap[calls[c].idx].child
                    IN  /\ a \in SnapFinished(snap)
                        /\ proc'[p].children =
                               SelectSeq(proc[p].children, LAMBDA b : b # a)
                        /\ calls'[c].settled = calls[c].settled \cup {calls[c].idx}
                        /\ calls'[c].pc = "jc_ret" <=> calls'[c].settled = DOMAIN snap
              /\ (calls[c].pc = "jc_ret" /\ snap # << >>) =>
                    /\ SnapFinished(snap) = SnapChildren(snap)
                    /\ Range(proc[p].children) \cap SnapChildren(snap) = {}
                    /\ calls'[c] # calls[c] =>
                          /\ calls'[c].pc = "done"
                          /\ proc'[p].children = proc[p].children
              /\ (calls[c].pc = "jc" /\ calls'[c].pc # "jc") =>
                    /\ proc' = proc
                    /\ IF proc[p].children = << >>
                       THEN /\ calls'[c].pc = "jc_ret"
                            /\ calls'[c].snap = << >>
                       ELSE /\ calls'[c].pc = "jc_up"
                            /\ calls'[c].kids = proc[p].children
              /\ (calls[c].pc = "jc_ret" /\ snap = << >> /\ calls'[c] # calls[c]) =>
                    /\ calls'[c].pc = "done"
                    /\ calls'[c].err = "None"
                    /\ ~calls'[c].suspended
                    /\ proc'[p].children = proc[p].children
              /\ (calls[c].pc \in {"jc_up", "jc_get"} /\ calls'[c] # calls[c]) =>
                    /\ SnapChildren(calls'[c].snap) \cup Range(calls'[c].kids)
                          = SnapChildren(snap) \cup Range(calls[c].kids)
                    /\ proc' = proc]_vars

C31_Witness ==
    /\ last.op = "join_children"
    /\ last.arg # 0
    /\ calls[last.c].suspended
    /\ Cardinality(SnapChildren(calls[last.c].snap)) = 1
    /\ Len(proc[last.p].children) = 1
    /\ Range(proc[last.p].children) \cap SnapChildren(calls[last.c].snap) = {}

\* C32: a value of the signal set handed to the signal capability of the
\* completion object, or to the process through the same interface, does what
\* signal_process does with that signal and returns Ok; a value outside the
\* set returns SignalDeliveryError and reaches no thread of the process or of
\* its children.
C32_SignalCapability ==
    [][/\ \A c \in Signalers :
             (calls[c].pc = "idle"
                 /\ calls'[c].opname \in {"handler_signal", "process_signal"}) =>
                 /\ calls'[c].sig \in SignalValues
                 /\ calls'[c] = [SignalCall("signal_process", calls'[c].p, calls'[c].sig)
                                    EXCEPT !.opname = calls'[c].opname]
                 /\ thr' = thr
                 /\ proc' = proc
       /\ (last'.op \in {"handler_signal", "process_signal"} /\ last'.ok) =>
             /\ last'.arg \in SignalValues
             /\ proc' = proc
       /\ (last'.op \in {"handler_signal", "process_signal"} /\ ~last'.ok) =>
             /\ last'.arg \notin SignalValues
             /\ last'.err = "SignalDeliveryError"
             /\ calls' = calls
             /\ thr' = thr
             /\ proc' = proc]_vars

C32_Witness ==
    /\ last.op = "handler_signal"
    /\ ~last.ok
    /\ last.p = 1
    /\ proc[1].waiting > 0
    /\ proc[1].children # << >>
    /\ \E t \in Thrs : thr[t].p # 1 /\ thr[t].signals = {31}
    /\ \E t \in Thrs : thr[t].p = 1 /\ thr[t].signals = {9}

\* C33: signal_interval(signal, Some(d), repeat) leaves for that signal the one
\* schedule with interval d, the given repeat flag and last_signal equal to the
\* reading of the monotonic clock; signal_interval(signal, None, _) leaves
\* none, and changes nothing when there was none.  Either form leaves the
\* schedules of the other signals, the thread table, the children list and all
\* other state of the process as they were.
C33_OneSchedulePerSignal ==
    [][\A p \in Procs :
          (last'.op = "signal_interval" /\ last'.p = p) =>
              LET tab == proc'[p].signal_intervals
                  signal == last'.arg
              IN  /\ last'.before = proc[p].signal_intervals
                  /\ IF last'.some
                     THEN /\ signal \in DOMAIN tab
                          /\ tab[signal] = [signal |-> signal, interval |-> last'.pre,
                                            last_signal |-> last'.ret,
                                            repeat |-> last'.repeat]
                          /\ last'.ret \in ClockReads
                     ELSE /\ signal \notin DOMAIN tab
                          /\ signal \notin DOMAIN last'.before => tab = last'.before
                  /\ \A s \in IntervalSignals \ {signal} :
                         /\ s \in DOMAIN tab <=> s \in DOMAIN last'.before
                         /\ s \in DOMAIN tab => tab[s] = last'.before[s]
                  /\ proc' = [proc EXCEPT ![p].signal_intervals = tab]
                  /\ thr' = thr]_vars

C33_Witness ==
    /\ last.op = "signal_interval"
    /\ last.some
    /\ last.arg \in DOMAIN last.before
    /\ last.before[last.arg].interval # last.pre
    /\ last.before[last.arg].last_signal < last.ret
    /\ last.before[last.arg].repeat # last.repeat
    /\ DOMAIN proc[last.p].signal_intervals = IntervalSignals
    /\ proc[last.p].children # << >>
    /\ proc[last.p].threads # << >>

\* C34: try_join() is one step that changes no state, the waiting counter
\* included; it returns None while the completion of the process is Pending,
\* and in every state after the completion has settled it returns the finished
\* result, which stays the same and is the result join() hands to its callers.
C34_TryJoinPolls ==
    [][/\ \A p \in Procs :
             /\ (last'.op = "try_join" /\ last'.p = p) =>
                    /\ UNCHANGED <<task_count, process_seed, processes, proc, thr,
                                   free_guards, owners, calls, issued, finish_log>>
                    /\ last'.some <=> proc[p].finished.fin
                    /\ last'.some =>
                           /\ last'.ok = proc[p].finished.ok
                           /\ last'.ret = proc[p].finished.code
             /\ ~proc'[p].finished.fin => ~try_join(p)'.some
             /\ proc[p].finished.fin =>
                    /\ try_join(p)' = SomeResult(proc[p].finished)
                    /\ try_join(p)' = try_join(p)
       /\ \A c \in Callers :
             (calls'[c].pc = "done" /\ calls[c].pc = "join") =>
                 \A p \in Procs :
                     calls[c].p = p =>
                         try_join(p)' = [some |-> calls'[c].fin, ok |-> calls'[c].ok,
                                         code |-> calls'[c].code]]_vars

C34_Witness ==
    /\ last.op = "try_join"
    /\ last.some
    /\ ~last.ok
    /\ proc[last.p].waiting > 0
    /\ \E c \in Callers : calls[c].pc = "done" /\ calls[c].p = last.p /\ ~calls[c].ok
    /\ \E c \in Callers : calls[c].pc = "join" /\ calls[c].p = last.p

\* C35: a new control plane has task counter 0 and an empty process map, and
\* the first ID it issues is 1; the process that new_process just made has an
\* empty thread table, thread_count 0, no children, no signal schedules,
\* checkpoint Execute, the journaling-disable flag false, no wakers, waiting
\* counter 0, run-token counter 0, no parent and a Pending completion,
\* whatever the control plane and its other processes have been through.
C35_FreshState ==
    /\ task_count = 0
    /\ processes = << >>
    /\ [][/\ (issued = << >> /\ issued' # << >>) => issued'[1].id = <<0, 1>>
          /\ (last'.op = "new_process" /\ last'.ok /\ Len(proc') = Len(proc) + 1) =>
                LET new == proc'[Len(proc')]
                IN  /\ new.threads = << >>
                    /\ new.thread_count = 0
                    /\ new.children = << >>
                    /\ new.signal_intervals = << >>
                    /\ new.checkpoint = "Execute"
                    /\ ~new.disable_journaling_after_checkpoint
                    /\ new.wakers = << >>
                    /\ new.waiting = 0
                    /\ new.cpu_run_tokens = 0
                    /\ new.parent = NoParent
                    /\ new.finished = Pending]_vars

C35_Witness ==
    /\ last.op = "new_process"
    /\ last.ok
    /\ Len(proc) = 2
    /\ proc[2] = [NewProcess(U32_ZERO) EXCEPT !.pid = last.id]
    /\ proc[1].finished.fin
    /\ proc[1].thread_count = 1
    /\ task_count = 1
    /\ issued[1].kind = "id"

\* The process whose mutex the next step of call c takes (0: none)
Wants(c) ==
    CASE calls[c].pc = "sp_lock" -> calls[c].want
      [] calls[c].pc = "ntw_ins" -> calls[c].p
      [] calls[c].pc \in {"jac", "jc"} /\ ~calls[c].lock -> calls[c].p
      [] calls[c].pc \in {"jac_retain", "jc_retain"} -> calls[c].p
      [] OTHER -> 0

\* Call c waits for a mutex that a call holds
Blocked(c) == Wants(c) # 0 /\ InnerLocked(Wants(c))

\* A step of call c
CallStep(c) ==
    \/ signal_process_internal(c)
    \/ new_thread_with_id_insert(c)
    \/ inner_lock(c)
    \/ join_any_child_snapshot(c)
    \/ join_any_child_poll(c)
    \/ join_any_child_retain(c)
    \/ join_any_child_drop(c)
    \/ join_any_child_return(c)
    \/ join_children_snapshot(c)
    \/ join_children_poll(c)
    \/ join_children_retain(c)
    \/ join_children_return(c)

\* Call c has begun and has not returned
Running(c) == calls[c].pc \notin {"idle", "done"}

\* Call c is suspended on completions that are all pending
SuspendedOnPending(c) ==
    \/ calls[c].pc = "join" /\ ~JoinReady(calls[c].p)
    \/ /\ calls[c].pc \in {"jac_wait", "jc_wait"}
       /\ \A j \in calls[c].polled : ~JoinSettled(calls[c].snap, j)

Hands(e) == e.waiting > 0 /\ e.children # <<>>

\* C37: a child that is handed the signal routes it by the same rule: one
\* signal_process call goes down through every process it finds with
\* waiting > 0 and children, handing the signal to each of their children, and
\* signals all threads of every process it gets to that is not such a process;
\* every thread is signalled at most once in the call, and no thread of a
\* process that handed the signal on is signalled.
C37_SignalRoutedDownTheTree ==
    /\ [][\A c \in Signalers :
             (/\ calls[c].pc = "sp_lock" /\ calls'[c] # calls[c]
              /\ proc[calls[c].want].waiting > 0
              /\ proc[calls[c].want].children # <<>>) => thr' = thr]_vars
    /\ [][\A p \in Procs :
             (last'.op = "signal_process" /\ last'.p = p) =>
                 LET r == last'.route
                 IN  /\ [i \in DOMAIN r |-> r[i].p] = <<p>> \o last'.forwarded
                     /\ \A q \in Procs :
                           Count(last'.forwarded, q) =
                               Cardinality({ij \in (DOMAIN r) \X (1 .. MaxProcs) :
                                               /\ Hands(r[ij[1]])
                                               /\ ij[2] \in DOMAIN r[ij[1]].children
                                               /\ r[ij[1]].children[ij[2]] = q})
                     /\ \A t \in Thrs :
                           /\ Count(last'.delivered, t) =
                                  Cardinality({i \in DOMAIN r :
                                                  /\ ~Hands(r[i])
                                                  /\ t \in Range(r[i].threads)})
                           /\ Count(last'.delivered, t) <= 1
                           /\ Count(last'.delivered, t) = 1 => last'.arg \in thr'[t].signals
                           /\ Count(last'.delivered, t) = 0 => thr'[t] = thr[t]]_vars

C37_Witness ==
    /\ last.op = "signal_process"
    /\ last.p = 1
    /\ last.forwarded = <<2, 3>>
    /\ proc[1].children = <<2>>
    /\ proc[2].children = <<3>>
    /\ \E t \in Thrs : thr[t].p = 2 /\ t \in Range(proc[2].threads) /\ thr[t].signals = {}
    /\ \E t \in Thrs : thr[t].p = 3 /\ thr[t].signals = {last.arg}
    /\ Len(last.delivered) = 1

\* The children call c snapshotted whose joins it still awaits
Awaited(c) ==
    IF calls[c].pc \in {"jac_wait", "jc_wait"}
    THEN {calls[c].snap[i].child : i \in DOMAIN calls[c].snap \ calls[c].settled}
    ELSE {}

\* C38, as claimed: while a caller is suspended in join_children or
\* join_any_child, the waiting counter of every child of its snapshot is
\* above 0.
C38_EverySnapshottedChildWaitedOn ==
    \A c \in Callers :
        calls[c].pc \in {"jac_wait", "jc_wait"} =>
            \A a \in SnapChildren(calls[c].snap) : proc[a].waiting > 0

\* C38: a join raises the waiting counter of the process that is joined: while
\* a caller is suspended in join_children or join_any_child, the waiting
\* counter of every snapshotted child whose join has not settled is above 0
\* (that of a child whose join has settled is back where it was), so a
\* signal_process on such a child that has children goes to the grandchildren
\* and reaches none of the child's own threads.
C38_AwaitedChildForwardsSignals ==
    /\ [](\A c \in Callers : \A a \in Awaited(c) : proc[a].waiting > 0)
    /\ [][\A c \in Callers, s \in Signalers : \A a \in Awaited(c) :
             (/\ calls[s].pc = "sp_lock" /\ calls[s].route = <<>> /\ calls[s].want = a
              /\ calls'[s] # calls[s]
              /\ proc[a].children # <<>>) =>
                 /\ thr' = thr
                 /\ calls'[s].pc = "sp_lock"
                 /\ calls'[s].want \in Range(proc[a].children)
                 /\ Hands(calls'[s].route[1])]_vars
    /\ [][(last'.op = "signal_process" /\ Hands(last'.route[1])) =>
             /\ \A t \in Range(last'.route[1].threads) : Count(last'.delivered, t) = 0
             /\ \A g \in Range(last'.route[1].children) :
                    /\ Count(last'.forwarded, g) = 1
                    /\ \E i \in DOMAIN last'.route :
                           /\ last'.route[i].p = g
                           /\ Hands(last'.route[i])
                                \/ \A t \in Range(last'.route[i].threads) :
                                       /\ Count(last'.delivered, t) = 1
                                       /\ last'.arg \in thr'[t].signals]_vars

C38_Witness ==
    /\ last.op = "signal_process"
    /\ last.p = 2
    /\ 2 \in Awaited(1)
    /\ proc[2].children = <<3>>
    /\ proc[2].waiting = 1
    /\ \E t \in Range(proc[2].threads) : thr[t].signals = {}
    /\ \E t \in Range(proc[3].threads) : thr[t].signals = {last.arg}

\* C39: a finished child is not reaped by one caller only.  A join_any_child
\* call whose snapshot holds a finished child can be resumed also after
\* another call has returned that child and removed it from the children
\* list; when that child is the only finished one of its snapshot it returns
\* the child's pid and exit code as the first call did, and the child stays
\* out of the children list.
C39_ReapedByBothCallers ==
    /\ [](\A c \in Callers :
             (calls[c].pc = "jac_wait" /\ SnapFinished(calls[c].snap) # {})
                 => ENABLED join_any_child_poll(c))
    /\ [][\A c \in Callers, a \in Procs :
             /\ (/\ calls[c].pc \in {"jac_poll", "jac_wait"}
                 /\ calls'[c].pc = "jac_retain"
                 /\ SnapFinished(calls[c].snap) = {a}) =>
                    /\ calls'[c].child = a
                    /\ calls'[c].pid = proc[a].pid
                    /\ calls'[c].code = CodeOf(proc[a].finished)
             /\ (/\ calls[c].pc = "jac_retain" /\ calls'[c] # calls[c]
                 /\ calls[c].child = a
                 /\ a \notin Range(proc[calls[c].p].children)) =>
                    /\ calls'[c].pc \in {"jac_drop", "jac_ret"}
                    /\ \A q \in Procs : proc'[q].children = proc[q].children
             /\ (/\ calls[c].pc = "jac_ret" /\ calls'[c].pc = "done"
                 /\ calls[c].child = a) =>
                    /\ calls'[c].ok
                    /\ last'.arg = a
                    /\ last'.id = proc[a].pid
                    /\ last'.ret = CodeOf(proc[a].finished)
                    /\ \A q \in Procs : proc'[q].children = proc[q].children]_vars

C39_Witness ==
    /\ \A c \in Callers : calls[c].pc = "done" /\ calls[c].ok /\ calls[c].suspended
    /\ calls[1].child = calls[2].child
    /\ calls[1].pid = calls[2].pid
    /\ calls[1].code = calls[2].code
    /\ calls[1].child \notin Range(proc[1].children)
    /\ Len(finish_log) = 1

\* C40: join_any_child ends in one of two ways: with the NoChild error, when
\* the children list was empty at the snapshot, or with (pid, code) of a child
\* of its snapshot that has finished, never with a success that names no
\* child; the code is the exit code of an Ok result, the exit code an error
\* carries, or the Canceled errno when the error carries none.
C40_TwoOutcomes ==
    [][\A c \in Callers :
          (calls[c].pc \in JoinPcs /\ calls[c].pc \notin {"join", "jc_ret"}
              /\ calls'[c].pc = "done") =>
              /\ calls[c].pc = "jac_ret"
              /\ last'.op = "join_any_child" /\ last'.c = c
              /\ IF calls[c].snap = <<>>
                 THEN /\ calls[c].kids = <<>>
                      /\ ~calls'[c].ok /\ ~last'.ok
                      /\ calls'[c].err = "Child" /\ last'.err = "Child"
                      /\ calls'[c].child = 0
                 ELSE /\ calls'[c].ok /\ last'.ok
                      /\ calls'[c].err = ""
                      /\ calls'[c].child \in SnapChildren(calls[c].snap)
                      /\ last'.arg = calls'[c].child
                      /\ \A a \in Procs :
                             calls'[c].child = a =>
                                 LET res == proc[a].finished
                                 IN  /\ res.fin
                                     /\ calls'[c].pid = proc[a].pid
                                     /\ last'.id = proc[a].pid
                                     /\ last'.ret = calls'[c].code
                                     /\ calls'[c].code =
                                            IF res.ok \/ res.code # -1 THEN res.code
                                            ELSE CanceledCode]_vars

C40_Witness ==
    /\ last.op = "join_any_child"
    /\ last.ok
    /\ last.arg \in Procs
    /\ ~proc[last.arg].finished.ok
    /\ proc[last.arg].finished.code = -1
    /\ last.ret = CanceledCode
    /\ \E a \in Procs : ~proc[a].finished.ok /\ proc[a].finished.code = 3

============================================================================
